---- MODULE Spec2Model ----
(***************************************************************************)
(* api-vacina-pet: pets, vaccine catalogue and vaccination records of a    *)
(* veterinary clinic, reached through a service layer (clinica/services)   *)
(* and through REST viewsets (clinica/views.py).                           *)
(*                                                                         *)
(* Dates are day numbers.  Decimal(…, 2) amounts (peso, valor) are counted *)
(* in hundredths, so 0.01 is 1.  A nullable column holds NoDate / NoId     *)
(* for None.  Every request is handled synchronously: a handler runs only  *)
(* when no response is pending (resp.op = "idle"), writes its response to  *)
(* resp, and Responder hands the response back to the caller.              *)
(* Two handlers are followed statement by statement instead: the           *)
(* serialization of a pet, whose method fields each read the date, and a   *)
(* record_vaccination running at the same time as a delete_pet.            *)
(***************************************************************************)
EXTENDS Integers, FiniteSets, Sequences, TLC

\* ---------------------------------------------------------------- bounds
MaxPets      == 2     \* rows ever inserted into table pet
MaxVacinas   == 1     \* rows ever inserted into table vacina
MaxRegistros == 1     \* rows ever inserted into table pet_vacina
MaxDay       == 1     \* days the clock may advance
MaxAhead     == 8     \* days after the start that a next dose may fall on
Day0         == 10    \* the day the clock starts at

\* ------------------------------------------------------ program constants
MIN_PET_WEIGHT == 1   \* VALIDATION_CONSTRAINTS.MIN_PET_WEIGHT = 0.01
MIN_VACINA_VALOR == 1 \* Vacina.valor MinValueValidator(Decimal('0.01'))
NoId   == 0           \* None for an id (`if dono_id:` is false for it)
NoDate == 0 - 1       \* None for a DateField(null=True)

VARIABLES
    usuarios,           \* username -> [is_staff]                (table usuario)
    perfilDono,         \* id -> [usuario]                       (table perfil_dono)
    perfilFuncionario,  \* id -> [usuario]                       (table perfil_funcionario)
    pets,               \* id -> Pet row                         (table pet)
    vacinas,            \* id -> Vacina row                      (table vacina)
    registros,          \* id -> PetVacina row                   (table pet_vacina)
    ultimoId,           \* [pet, vacina, registro]: last auto-increment id given
    hoje,               \* date.today()
    resp                \* the response of the request being answered

db   == <<usuarios, perfilDono, perfilFuncionario, pets, vacinas, registros, ultimoId>>
vars == <<usuarios, perfilDono, perfilFuncionario, pets, vacinas, registros, ultimoId,
          hoje, resp>>

Idle == [op |-> "idle", via |-> "", user |-> "", alvo |-> NoId, dados |-> <<>>,
         erro |-> "ok", ids |-> {}]

\* A response: the operation, the layer it was called through, the caller,
\* the id the call names, the data submitted, the outcome and the ids of the
\* rows returned (or created).
Resposta(op, via, user, alvo, dados, erro, ids) ==
    [op |-> op, via |-> via, user |-> user, alvo |-> alvo, dados |-> dados,
     erro |-> erro, ids |-> ids]

\* ------------------------------------------------------------- identity
is_staff(user) == usuarios[user].is_staff

\* PerfilDono.objects.get(usuario=user); NoId stands for DoesNotExist.
PerfilDono_get(user) ==
    LET ds == {d \in DOMAIN perfilDono : perfilDono[d].usuario = user}
    IN  IF ds = {} THEN NoId ELSE CHOOSE d \in ds : TRUE

\* PerfilFuncionario.objects.get(usuario=user); NoId stands for DoesNotExist.
PerfilFuncionario_get(user) ==
    LET fs == {f \in DOMAIN perfilFuncionario : perfilFuncionario[f].usuario = user}
    IN  IF fs = {} THEN NoId ELSE CHOOSE f \in fs : TRUE

\* The exceptions that reach the caller as a permission error (HTTP 403).
IsPermissionDenied(erro) ==
    erro \in {"OwnerAccessOnlyException", "StaffOnlyException", "PermissionDenied"}

\* core.exceptions: the application exception classes and the status_code
\* each class declares
APIExceptions ==
    {"StaffOnlyException", "OwnerAccessOnlyException", "PetNotFoundException",
     "VaccineNotFoundException", "VaccinationLogicException"}

status_code(erro) ==
    CASE erro \in {"StaffOnlyException", "OwnerAccessOnlyException"} -> 403
      [] erro \in {"PetNotFoundException", "VaccineNotFoundException"} -> 404
      [] erro = "VaccinationLogicException" -> 400

\* custom_exception_handler: the HTTP status the caller receives. An
\* application exception answers with its status_code; the two exceptions
\* of rest_framework.exceptions go to DRF's handler (PermissionDenied 403,
\* ValidationError 400); everything else (ValueError, TypeError, Http404,
\* DoesNotExist, ProtectedError, IntegrityError) gets the generic 500.
custom_exception_handler(erro) ==
    IF erro \in APIExceptions THEN status_code(erro)
    ELSE IF erro = "PermissionDenied" THEN 403
    ELSE IF erro = "ValidationError" THEN 400
    ELSE 500

\* str(exc): texts an exception may carry
Mensagens == {"", "Peso minimo e 0.01kg", "FOREIGN KEY constraint failed"}

\* the body of the generic answer of custom_exception_handler
GENERIC_ERROR ==
    [status |-> 500, error |-> "Erro interno do servidor",
     detail |-> "Um erro inesperado ocorreu. Por favor, tente novamente mais tarde."]

\* a handler that copies str(exc) into the generic answer
exception_response_com_detalhe(erro, msg) ==
    [status |-> 500, error |-> "Erro interno do servidor", detail |-> msg]

\* custom_exception_handler: the whole response for an exception of class
\* erro with text msg. handle_api_exception answers with the class name and
\* the message; DRF's exception_handler answers {"detail": msg}.
exception_response(erro, msg) ==
    IF erro \in APIExceptions
    THEN [status |-> status_code(erro), error |-> erro, message |-> msg]
    ELSE IF erro \in {"PermissionDenied", "ValidationError"}
    THEN [status |-> custom_exception_handler(erro), detail |-> msg]
    ELSE GENERIC_ERROR

\* ExceptionHandlingMiddleware.__call__: the response for an exception that
\* reaches the middleware
ExceptionHandlingMiddleware_call(erro, msg) ==
    IF erro \in APIExceptions
    THEN [status |-> status_code(erro), error |-> erro, message |-> msg]
    ELSE [status |-> 500, error |-> "InternalServerError",
          message |-> "Um erro inesperado ocorreu"]

\* The kind of error the caller sees: the class name of an application
\* exception or of a DRF exception, the generic server error otherwise.
error_kind(erro) ==
    IF erro = "ok" THEN "none"
    ELSE IF erro \in {"PetNotFoundException", "VaccineNotFoundException"} THEN "NotFound"
    ELSE IF IsPermissionDenied(erro) THEN "PermissionDenied"
    ELSE IF erro = "ValidationError" THEN "ValidationError"
    ELSE IF erro = "VaccinationLogicException" THEN "BusinessLogic"
    ELSE "InternalError"

\* ------------------------------------------------------------ pet inputs
PetFields == {"nome", "especie", "raca", "peso", "data_nascimento"}

PetValido ==
    [nome |-> "Rex", especie |-> "Cachorro", raca |-> "Labrador", peso |-> 450,
     data_nascimento |-> NoDate]
PetPesoInvalido ==
    [nome |-> "Rex", especie |-> "Cachorro", raca |-> "Labrador", peso |-> 0,
     data_nascimento |-> NoDate]
PetInputs == {PetValido, PetPesoInvalido}

\* update_pet(**kwargs) / PATCH bodies
PetKwargs == {("nome" :> "Miau"), ("peso" :> 0)}

PetIdArgs == 0 .. MaxPets

\* owner ids a request may name: none, the stored profiles, one that is missing
DonoIdArgs == NoId .. 4

\* request bodies of the pet endpoints: the fields, with or without a 'dono' key
PetViewData ==
    PetInputs \cup {("dono" :> d) @@ b : b \in PetInputs, d \in DonoIdArgs \ {NoId}}

\* update_pet(**kwargs) / PUT and PATCH bodies that also name an owner
PetDonoKwargs ==
    {("nome" :> "Miau"), ("peso" :> 500), ("data_nascimento" :> (Day0 - 1)),
     ("dono" :> 2) @@ ("nome" :> "Miau"), ("dono" :> 2) @@ PetValido}

\* ------------------------------------------------------- PetRepository
PetRepository_get_all == DOMAIN pets

PetRepository_get_by_owner(dono) == {p \in DOMAIN pets : pets[p].dono = dono}

\* Pet.objects.create(dono=…, **fields): the row a new pet is stored as
PetRow(dono, campos) ==
    [dono |-> dono, nome |-> campos.nome, especie |-> campos.especie,
     raca |-> campos.raca, peso |-> campos.peso,
     data_nascimento |-> campos.data_nascimento]

\* an update that writes the birth date whether or not it was given
PetRepository_update_sem_guarda(pet, kwargs) ==
    [f \in DOMAIN pet |->
        IF f \in (DOMAIN kwargs) \cap PetFields THEN kwargs[f]
        ELSE IF f = "data_nascimento" THEN NoDate
        ELSE pet[f]]

\* PetRepository.update / ModelSerializer.update: each field given replaces
\* the stored one, the others stay.
PetRepository_update(pet, kwargs) ==
    [f \in DOMAIN pet |-> IF f \in (DOMAIN kwargs) \cap PetFields THEN kwargs[f] ELSE pet[f]]

\* a Pet whose reverse relations block nothing
PetProtected_nunca(p) == FALSE

\* on_delete=PROTECT on PetVacina.pet: a pet with records cannot be deleted
PetProtected(p) == \E r \in DOMAIN registros : registros[r].pet = p

\* ---------------------------------------------------------- PetService
\* PetService._get_user_owner + the comparison the callers make: the service
\* error a non-staff caller gets for a pet of owner `dono`, "ok" if allowed.
owner_check(user, dono) ==
    IF is_staff(user) THEN "ok"
    ELSE IF PerfilDono_get(user) = NoId THEN "OwnerAccessOnlyException"
    ELSE IF dono # PerfilDono_get(user) THEN "OwnerAccessOnlyException"
    ELSE "ok"

\* PetService.list_all_pets
list_all_pets(user) ==
    IF is_staff(user) THEN [erro |-> "ok", ids |-> PetRepository_get_all]
    ELSE IF PerfilDono_get(user) = NoId
         THEN [erro |-> "OwnerAccessOnlyException", ids |-> {}]
         ELSE [erro |-> "ok", ids |-> PetRepository_get_by_owner(PerfilDono_get(user))]

\* create_pet as it would be without the comparison of the requested owner
\* against the caller's own profile
create_pet_sem_verificacao(user, dono_id, campos) ==
    IF campos.peso < MIN_PET_WEIGHT THEN [erro |-> "ValueError", dono |-> NoId]
    ELSE IF dono_id # NoId
    THEN IF dono_id \notin DOMAIN perfilDono
         THEN [erro |-> "DoesNotExist", dono |-> NoId]
         ELSE [erro |-> "ok", dono |-> dono_id]
    ELSE IF PerfilDono_get(user) = NoId
         THEN [erro |-> "OwnerAccessOnlyException", dono |-> NoId]
         ELSE [erro |-> "ok", dono |-> PerfilDono_get(user)]

\* PetService.create_pet up to the repository call: the outcome and the owner
\* the pet is created for.
create_pet(user, dono_id, campos) ==
    IF campos.peso < MIN_PET_WEIGHT THEN [erro |-> "ValueError", dono |-> NoId]
    ELSE IF dono_id # NoId
    THEN IF ~is_staff(user)
         THEN IF PerfilDono_get(user) = NoId
              THEN [erro |-> "OwnerAccessOnlyException", dono |-> NoId]
              ELSE IF PerfilDono_get(user) # dono_id
              THEN [erro |-> "OwnerAccessOnlyException", dono |-> NoId]
              ELSE [erro |-> "ok", dono |-> PerfilDono_get(user)]
         ELSE IF dono_id \notin DOMAIN perfilDono
              THEN [erro |-> "DoesNotExist", dono |-> NoId]
              ELSE [erro |-> "ok", dono |-> dono_id]
    ELSE IF PerfilDono_get(user) = NoId
         THEN [erro |-> "OwnerAccessOnlyException", dono |-> NoId]
         ELSE [erro |-> "ok", dono |-> PerfilDono_get(user)]

\* PetService.update_pet up to the repository call
update_pet(user, pet_id, kwargs) ==
    IF pet_id \notin DOMAIN pets THEN "PetNotFoundException"
    ELSE IF owner_check(user, pets[pet_id].dono) # "ok"
         THEN owner_check(user, pets[pet_id].dono)
    ELSE IF "peso" \in DOMAIN kwargs /\ kwargs["peso"] < MIN_PET_WEIGHT THEN "ValueError"
    ELSE IF ~(DOMAIN kwargs \subseteq PetFields) THEN "TypeError"
    ELSE "ok"

\* PetService.delete_pet up to the repository call
delete_pet(user, pet_id) ==
    IF pet_id \notin DOMAIN pets THEN "PetNotFoundException"
    ELSE IF owner_check(user, pets[pet_id].dono) # "ok"
         THEN owner_check(user, pets[pet_id].dono)
    ELSE IF PetProtected(pet_id) THEN "ProtectedError"
    ELSE "ok"

SvcListPets(user) ==
    /\ resp.op = "idle"
    /\ resp' = Resposta("list_pets", "service", user, NoId, <<>>,
                        list_all_pets(user).erro, list_all_pets(user).ids)
    /\ UNCHANGED <<db, hoje>>

SvcCreatePet(user, dono_id, campos) ==
    LET r   == create_pet(user, dono_id, campos)
        new == ultimoId.pet + 1
    IN  /\ resp.op = "idle"
        /\ r.erro = "ok" => ultimoId.pet < MaxPets
        /\ IF r.erro = "ok"
           THEN /\ pets' = (new :> PetRow(r.dono, campos)) @@ pets
                /\ ultimoId' = [ultimoId EXCEPT !.pet = new]
                /\ resp' = Resposta("create_pet", "service", user, dono_id, campos, "ok", {new})
           ELSE /\ UNCHANGED <<pets, ultimoId>>
                /\ resp' = Resposta("create_pet", "service", user, dono_id, campos, r.erro, {})
        /\ UNCHANGED <<usuarios, perfilDono, perfilFuncionario, vacinas, registros, hoje>>

SvcUpdatePet(user, pet_id, kwargs) ==
    LET e == update_pet(user, pet_id, kwargs)
    IN  /\ resp.op = "idle"
        /\ pets' = IF e = "ok"
                   THEN [pets EXCEPT ![pet_id] = PetRepository_update(pets[pet_id], kwargs)]
                   ELSE pets
        /\ resp' = Resposta("update_pet", "service", user, pet_id, kwargs, e,
                            IF e = "ok" THEN {pet_id} ELSE {})
        /\ UNCHANGED <<usuarios, perfilDono, perfilFuncionario, vacinas, registros,
                       ultimoId, hoje>>

SvcDeletePet(user, pet_id) ==
    LET e == delete_pet(user, pet_id)
    IN  /\ resp.op = "idle"
        /\ pets' = IF e = "ok" THEN [p \in DOMAIN pets \ {pet_id} |-> pets[p]] ELSE pets
        /\ resp' = Resposta("delete_pet", "service", user, pet_id, <<>>, e, {})
        /\ UNCHANGED <<usuarios, perfilDono, perfilFuncionario, vacinas, registros,
                       ultimoId, hoje>>

\* ---------------------------------------------------------- PetViewSet
\* PetSerializer: 'dono' is read-only, so a submitted 'dono' never reaches
\* validated_data; nome, especie, raca and peso are required unless the
\* request is partial (PATCH); peso carries MinValueValidator(0.01).
PetSerializer_validated_data(data) ==
    [f \in (DOMAIN data) \cap PetFields |-> data[f]]

PetSerializer_is_valid(data, partial) ==
    /\ partial \/ {"nome", "especie", "raca", "peso"} \subseteq DOMAIN data
    /\ "peso" \in DOMAIN data => data["peso"] >= MIN_PET_WEIGHT

\* get_queryset as it would be without the owner scoping
PetViewSet_get_queryset_sem_escopo(user, dono_id) ==
    IF is_staff(user) /\ dono_id # NoId
    THEN {p \in DOMAIN pets : pets[p].dono = dono_id}
    ELSE DOMAIN pets

\* PetViewSet.get_queryset; dono_id is the ?dono_id= query parameter
PetViewSet_get_queryset(user, dono_id) ==
    IF is_staff(user)
    THEN IF dono_id # NoId
         THEN {p \in DOMAIN pets : pets[p].dono = dono_id}
         ELSE DOMAIN pets
    ELSE IF PerfilDono_get(user) = NoId
         THEN {}
         ELSE {p \in DOMAIN pets : pets[p].dono = PerfilDono_get(user)}

\* PetViewSet._obter_dono_usuario + the comparison of perform_update,
\* perform_destroy and _validar_acesso_pet
PetViewSet_check_dono(user, dono) ==
    IF is_staff(user) THEN "ok"
    ELSE IF PerfilDono_get(user) = NoId THEN "PermissionDenied"
    ELSE IF dono # PerfilDono_get(user) THEN "PermissionDenied"
    ELSE "ok"

\* PetViewSet.create: CreateModelMixin validates the body, then perform_create
\* runs.  serializer.save() without dono= inserts a row whose NOT NULL owner
\* column is empty.
PetViewSet_create(user, data) ==
    IF ~PetSerializer_is_valid(data, FALSE) THEN [erro |-> "ValidationError", dono |-> NoId]
    ELSE IF "dono" \notin DOMAIN data
    THEN IF PerfilDono_get(user) = NoId
         THEN [erro |-> "PermissionDenied", dono |-> NoId]
         ELSE [erro |-> "ok", dono |-> PerfilDono_get(user)]
    ELSE IF ~is_staff(user) /\ PerfilDono_get(user) = NoId
         THEN [erro |-> "PermissionDenied", dono |-> NoId]
    ELSE IF ~is_staff(user) /\ data["dono"] # PerfilDono_get(user)
         THEN [erro |-> "PermissionDenied", dono |-> NoId]
    ELSE IF "dono" \notin DOMAIN PetSerializer_validated_data(data)
         THEN [erro |-> "IntegrityError", dono |-> NoId]
         ELSE [erro |-> "ok", dono |-> data["dono"]]

\* PetViewSet.update / partial_update: UpdateModelMixin looks the pet up in
\* get_queryset (get_object), validates the body, then perform_update runs.
PetViewSet_update(user, pk, data, partial) ==
    IF pk \notin PetViewSet_get_queryset(user, NoId) THEN "Http404"
    ELSE IF ~PetSerializer_is_valid(data, partial) THEN "ValidationError"
    ELSE PetViewSet_check_dono(user, pets[pk].dono)

\* PetViewSet.destroy: DestroyModelMixin looks the pet up in get_queryset
\* (get_object), then perform_destroy runs.
PetViewSet_destroy(user, pk) ==
    IF pk \notin PetViewSet_get_queryset(user, NoId) THEN "Http404"
    ELSE IF PetViewSet_check_dono(user, pets[pk].dono) # "ok"
         THEN PetViewSet_check_dono(user, pets[pk].dono)
    ELSE IF PetProtected(pk) THEN "ProtectedError"
    ELSE "ok"

ViewListPets(user, dono_id) ==
    /\ resp.op = "idle"
    /\ resp' = Resposta("list_pets", "view", user, dono_id, <<>>, "ok",
                        PetViewSet_get_queryset(user, dono_id))
    /\ UNCHANGED <<db, hoje>>

ViewCreatePet(user, data) ==
    LET r   == PetViewSet_create(user, data)
        new == ultimoId.pet + 1
        arg == IF "dono" \in DOMAIN data THEN data["dono"] ELSE NoId
    IN  /\ resp.op = "idle"
        /\ r.erro = "ok" => ultimoId.pet < MaxPets
        /\ IF r.erro = "ok"
           THEN /\ pets' = (new :> PetRow(r.dono, PetSerializer_validated_data(data))) @@ pets
                /\ ultimoId' = [ultimoId EXCEPT !.pet = new]
                /\ resp' = Resposta("create_pet", "view", user, arg, data, "ok", {new})
           ELSE /\ UNCHANGED <<pets, ultimoId>>
                /\ resp' = Resposta("create_pet", "view", user, arg, data, r.erro, {})
        /\ UNCHANGED <<usuarios, perfilDono, perfilFuncionario, vacinas, registros, hoje>>

ViewUpdatePet(user, pk, data, partial) ==
    LET e == PetViewSet_update(user, pk, data, partial)
    IN  /\ resp.op = "idle"
        /\ pets' = IF e = "ok"
                   THEN [pets EXCEPT ![pk] =
                            PetRepository_update(pets[pk], PetSerializer_validated_data(data))]
                   ELSE pets
        /\ resp' = Resposta("update_pet", "view", user, pk, data, e,
                            IF e = "ok" THEN {pk} ELSE {})
        /\ UNCHANGED <<usuarios, perfilDono, perfilFuncionario, vacinas, registros,
                       ultimoId, hoje>>

ViewDeletePet(user, pk) ==
    LET e == PetViewSet_destroy(user, pk)
    IN  /\ resp.op = "idle"
        /\ pets' = IF e = "ok" THEN [p \in DOMAIN pets \ {pk} |-> pets[p]] ELSE pets
        /\ resp' = Resposta("delete_pet", "view", user, pk, <<>>, e, {})
        /\ UNCHANGED <<usuarios, perfilDono, perfilFuncionario, vacinas, registros,
                       ultimoId, hoje>>

\* -------------------------------------------------------- vaccine inputs
VacinaFields == {"nome", "fabricante", "valor", "intervalo_doses_dias", "descricao"}

VacinaValida ==
    [nome |-> "Raiva", fabricante |-> "LabX", valor |-> 8500,
     intervalo_doses_dias |-> 3, descricao |-> "anual"]
VacinaValorZero ==
    [nome |-> "Raiva", fabricante |-> "LabX", valor |-> 0,
     intervalo_doses_dias |-> 3, descricao |-> "anual"]
VacinaIntervaloZero ==
    [nome |-> "Raiva", fabricante |-> "LabX", valor |-> 8500,
     intervalo_doses_dias |-> 0, descricao |-> "anual"]
VacinaInputs == {VacinaValida, VacinaValorZero, VacinaIntervaloZero}

\* update_vaccine(**kwargs) / PATCH bodies
VacinaKwargs == {("intervalo_doses_dias" :> 5), ("valor" :> (0 - 100))}

VacinaIdArgs == 0 .. MaxVacinas

\* ----------------------------------------------------- VaccineRepository
\* VaccineRepository.update / ModelSerializer.update
VaccineRepository_update(vaccine, kwargs) ==
    [f \in DOMAIN vaccine |-> IF f \in DOMAIN kwargs THEN kwargs[f] ELSE vaccine[f]]

\* on_delete=PROTECT on PetVacina.vacina
VacinaProtected(v) == \E r \in DOMAIN registros : registros[r].vacina = v

\* -------------------------------------------------------- VaccineService
\* VaccineService._validate_staff / VaccinationService._validate_staff
validate_staff(user) == IF is_staff(user) THEN "ok" ELSE "StaffOnlyException"

\* VaccineService.create_vaccine up to the repository call
create_vaccine(user, campos) ==
    IF validate_staff(user) # "ok" THEN validate_staff(user)
    ELSE IF campos.valor < 0 THEN "ValueError"
    ELSE IF campos.intervalo_doses_dias <= 0 THEN "ValueError"
    ELSE "ok"

\* VaccineService.update_vaccine up to the repository call
update_vaccine(user, vaccine_id, kwargs) ==
    IF validate_staff(user) # "ok" THEN validate_staff(user)
    ELSE IF vaccine_id \notin DOMAIN vacinas THEN "VaccineNotFoundException"
    ELSE IF "valor" \in DOMAIN kwargs /\ kwargs["valor"] < 0 THEN "ValueError"
    ELSE IF "intervalo_doses_dias" \in DOMAIN kwargs /\ kwargs["intervalo_doses_dias"] <= 0
         THEN "ValueError"
    ELSE IF ~(DOMAIN kwargs \subseteq VacinaFields) THEN "TypeError"
    ELSE "ok"

\* VaccineService.delete_vaccine up to the repository call
delete_vaccine(user, vaccine_id) ==
    IF validate_staff(user) # "ok" THEN validate_staff(user)
    ELSE IF vaccine_id \notin DOMAIN vacinas THEN "VaccineNotFoundException"
    ELSE IF VacinaProtected(vaccine_id) THEN "ProtectedError"
    ELSE "ok"

\* --------------------------------------------------------- VacinaViewSet
\* VacinaViewSet._validar_staff / PetVacinaViewSet._validar_staff
validar_staff(user) == IF is_staff(user) THEN "ok" ELSE "PermissionDenied"

\* VacinaSerializer: every field is required unless the request is partial;
\* valor carries MinValueValidator(0.01); intervalo_doses_dias is a
\* PositiveIntegerField, which admits 0.
VacinaSerializer_is_valid(data, partial) ==
    /\ partial \/ VacinaFields \subseteq DOMAIN data
    /\ "valor" \in DOMAIN data => data["valor"] >= MIN_VACINA_VALOR
    /\ "intervalo_doses_dias" \in DOMAIN data => data["intervalo_doses_dias"] >= 0

\* VacinaViewSet.create: the body is validated, then perform_create runs
VacinaViewSet_create(user, data) ==
    IF ~VacinaSerializer_is_valid(data, FALSE) THEN "ValidationError"
    ELSE validar_staff(user)

\* VacinaViewSet.update / partial_update: get_object over Vacina.objects.all(),
\* validation, then perform_update
VacinaViewSet_update(user, pk, data, partial) ==
    IF pk \notin DOMAIN vacinas THEN "Http404"
    ELSE IF ~VacinaSerializer_is_valid(data, partial) THEN "ValidationError"
    ELSE validar_staff(user)

\* VacinaViewSet.destroy: get_object, then perform_destroy
VacinaViewSet_destroy(user, pk) ==
    IF pk \notin DOMAIN vacinas THEN "Http404"
    ELSE IF validar_staff(user) # "ok" THEN validar_staff(user)
    ELSE IF VacinaProtected(pk) THEN "ProtectedError"
    ELSE "ok"

\* The three vaccine operations, through the service (via = "service") or
\* through VacinaViewSet (via = "view").
CreateVaccine(via, user, campos) ==
    LET e   == IF via = "service" THEN create_vaccine(user, campos)
               ELSE VacinaViewSet_create(user, campos)
        new == ultimoId.vacina + 1
    IN  /\ resp.op = "idle"
        /\ e = "ok" => ultimoId.vacina < MaxVacinas
        /\ IF e = "ok"
           THEN /\ vacinas' = (new :> campos) @@ vacinas
                /\ ultimoId' = [ultimoId EXCEPT !.vacina = new]
                /\ resp' = Resposta("create_vaccine", via, user, NoId, campos, "ok", {new})
           ELSE /\ UNCHANGED <<vacinas, ultimoId>>
                /\ resp' = Resposta("create_vaccine", via, user, NoId, campos, e, {})
        /\ UNCHANGED <<usuarios, perfilDono, perfilFuncionario, pets, registros, hoje>>

UpdateVaccine(via, user, vaccine_id, kwargs, partial) ==
    LET e == IF via = "service" THEN update_vaccine(user, vaccine_id, kwargs)
             ELSE VacinaViewSet_update(user, vaccine_id, kwargs, partial)
    IN  /\ resp.op = "idle"
        /\ vacinas' = IF e = "ok"
                      THEN [vacinas EXCEPT ![vaccine_id] =
                               VaccineRepository_update(vacinas[vaccine_id], kwargs)]
                      ELSE vacinas
        /\ resp' = Resposta("update_vaccine", via, user, vaccine_id, kwargs, e,
                            IF e = "ok" THEN {vaccine_id} ELSE {})
        /\ UNCHANGED <<usuarios, perfilDono, perfilFuncionario, pets, registros,
                       ultimoId, hoje>>

DeleteVaccine(via, user, vaccine_id) ==
    LET e == IF via = "service" THEN delete_vaccine(user, vaccine_id)
             ELSE VacinaViewSet_destroy(user, vaccine_id)
    IN  /\ resp.op = "idle"
        /\ vacinas' = IF e = "ok"
                      THEN [v \in DOMAIN vacinas \ {vaccine_id} |-> vacinas[v]]
                      ELSE vacinas
        /\ resp' = Resposta("delete_vaccine", via, user, vaccine_id, <<>>, e, {})
        /\ UNCHANGED <<usuarios, perfilDono, perfilFuncionario, pets, registros,
                       ultimoId, hoje>>

\* --------------------------------------------------------- record inputs
RegistroRequired == {"pet", "vacina", "aplicador", "data_aplicacao", "lote"}
RegistroWritable == RegistroRequired \cup {"observacoes"}

FuncionarioIdArgs == 0 .. 1

\* the bodies of record_vaccination / POST historico: application dates one
\* day before and one day after the day the clock starts at
RegistroInputs ==
    {[pet |-> p, vacina |-> v, aplicador |-> a, data_aplicacao |-> d,
      lote |-> "L1", observacoes |-> ""] :
        p \in PetIdArgs, v \in VacinaIdArgs, a \in FuncionarioIdArgs,
        d \in {Day0 - 1, Day0 + 1}}

\* POST bodies: the same, and two that also submit a proxima_dose
RegistroViewData ==
    RegistroInputs \cup
    {("proxima_dose" :> (Day0 + 4)) @@ b :
        b \in {c \in RegistroInputs : c.pet = 1 /\ c.vacina = 1 /\ c.aplicador = 1}}

\* update_vaccination(**kwargs) / PATCH bodies
RegistroKwargs == {("lote" :> "L2"), ("proxima_dose" :> (Day0 + 4))}

RegistroIdArgs == 0 .. MaxRegistros

\* -------------------------------------------------------------- PetVacina
\* save() as it would be if it ignored the vaccine's interval
PetVacina_save_sem_intervalo(row) ==
    IF row.proxima_dose = NoDate
    THEN [row EXCEPT !.proxima_dose = row.data_aplicacao]
    ELSE row

\* save() as it would be if it recomputed the next dose on every save
PetVacina_save_recalcula(row) ==
    [row EXCEPT !.proxima_dose =
        row.data_aplicacao + vacinas[row.vacina].intervalo_doses_dias]

\* PetVacina.save: the next dose is computed when the row has none
PetVacina_save(row) ==
    IF row.proxima_dose = NoDate
    THEN [row EXCEPT !.proxima_dose =
             row.data_aplicacao + vacinas[row.vacina].intervalo_doses_dias]
    ELSE row

\* esta_vencida as it would be if the day of the next dose itself counted
esta_vencida_inclusive(r) ==
    IF registros[r].proxima_dose = NoDate THEN FALSE
    ELSE registros[r].proxima_dose <= hoje

\* PetVacina.esta_vencida
esta_vencida(r) ==
    IF registros[r].proxima_dose = NoDate THEN FALSE
    ELSE registros[r].proxima_dose < hoje

STATUS_WARNING_DAYS == 7   \* get_status: (proxima_dose - hoje).days <= 7

\* get_status as it would be with the 7th day excluded
get_status_sem_setimo_dia(row) ==
    IF row.proxima_dose = NoDate THEN "indefinido"
    ELSE IF row.proxima_dose < hoje THEN "vencida"
    ELSE IF row.proxima_dose - hoje < STATUS_WARNING_DAYS THEN "proxima_em_breve"
    ELSE "em_dia"

\* get_status with the two answers of the warning window exchanged
get_status_aviso_trocado(row) ==
    IF row.proxima_dose = NoDate THEN "indefinido"
    ELSE IF row.proxima_dose < hoje THEN "vencida"
    ELSE IF row.proxima_dose - hoje <= STATUS_WARNING_DAYS THEN "em_dia"
    ELSE "proxima_em_breve"

\* PetVacina.get_status, of an instance (stored or not)
get_status(row) ==
    IF row.proxima_dose = NoDate THEN "indefinido"
    ELSE IF row.proxima_dose < hoje THEN "vencida"
    ELSE IF row.proxima_dose - hoje <= STATUS_WARNING_DAYS THEN "proxima_em_breve"
    ELSE "em_dia"

\* Pet.obter_proximas_doses / Pet.obter_doses_vencidas: the historico_id of
\* each entry
obter_proximas_doses(p) ==
    {r \in DOMAIN registros : /\ registros[r].pet = p
                              /\ registros[r].proxima_dose # NoDate
                              /\ registros[r].proxima_dose >= hoje}

\* obter_doses_vencidas as it would be if the day of the next dose counted
obter_doses_vencidas_inclusive(p) ==
    {r \in DOMAIN registros : /\ registros[r].pet = p
                              /\ registros[r].proxima_dose # NoDate
                              /\ registros[r].proxima_dose <= hoje}

obter_doses_vencidas(p) ==
    {r \in DOMAIN registros : /\ registros[r].pet = p
                              /\ registros[r].proxima_dose # NoDate
                              /\ registros[r].proxima_dose < hoje}

\* 'dias_restantes' of an entry of obter_proximas_doses and 'dias_vencido' of
\* an entry of obter_doses_vencidas
dias_restantes(r) == registros[r].proxima_dose - hoje
dias_vencido(r) == hoje - registros[r].proxima_dose

\* --------------------------------------------------- PetVaccineRepository
\* PetVacina.objects.create(...): the row built from the arguments, saved
PetVaccineRepository_create(campos) ==
    PetVacina_save([pet |-> campos.pet, vacina |-> campos.vacina,
                    aplicador |-> campos.aplicador,
                    data_aplicacao |-> campos.data_aplicacao,
                    proxima_dose |-> NoDate, lote |-> campos.lote,
                    observacoes |-> campos.observacoes])

\* PetVaccineRepository.update: lote, observacoes, proxima_dose; then save()
PetVaccineRepository_update(row, kwargs) ==
    PetVacina_save([f \in DOMAIN row |-> IF f \in DOMAIN kwargs THEN kwargs[f] ELSE row[f]])

PetVaccineRepository_get_by_owner(dono) ==
    {r \in DOMAIN registros : registros[r].pet \in DOMAIN pets
                              /\ pets[registros[r].pet].dono = dono}

DAYS_THRESHOLD == 7   \* get_upcoming_vaccinations(days_threshold=7)

PetVaccineRepository_get_upcoming_vaccinations(days_threshold) ==
    {r \in DOMAIN registros : /\ registros[r].proxima_dose # NoDate
                              /\ registros[r].proxima_dose >= hoje
                              /\ registros[r].proxima_dose <= hoje + days_threshold}

PetVaccineRepository_get_overdue_vaccinations ==
    {r \in DOMAIN registros : /\ registros[r].proxima_dose # NoDate
                              /\ registros[r].proxima_dose < hoje}

\* ---------------------------------------------------- VaccinationService
\* VaccinationService.list_all_vaccinations: the profile looked up is the
\* caller's PerfilFuncionario; handing it to a pet__dono filter is refused
\* by the ORM (ValueError).
list_all_vaccinations(user) ==
    IF is_staff(user) THEN [erro |-> "ok", ids |-> DOMAIN registros]
    ELSE IF PerfilFuncionario_get(user) = NoId THEN [erro |-> "ok", ids |-> {}]
    ELSE [erro |-> "ValueError", ids |-> {}]

\* record_vaccination as it would be without the lookup of the administrator
record_vaccination_sem_aplicador(user, campos) ==
    IF validate_staff(user) # "ok" THEN validate_staff(user)
    ELSE IF campos.pet \notin DOMAIN pets THEN "ValueError"
    ELSE IF campos.vacina \notin DOMAIN vacinas THEN "ValueError"
    ELSE IF campos.data_aplicacao > hoje THEN "ValueError"
    ELSE "ok"

\* VaccinationService.record_vaccination up to the repository call
record_vaccination(user, campos) ==
    IF validate_staff(user) # "ok" THEN validate_staff(user)
    ELSE IF campos.pet \notin DOMAIN pets THEN "ValueError"
    ELSE IF campos.vacina \notin DOMAIN vacinas THEN "ValueError"
    ELSE IF campos.aplicador \notin DOMAIN perfilFuncionario THEN "ValueError"
    ELSE IF campos.data_aplicacao > hoje THEN "ValueError"
    ELSE "ok"

\* VaccinationService.update_vaccination up to the repository call
update_vaccination(user, vaccination_id, kwargs) ==
    IF validate_staff(user) # "ok" THEN validate_staff(user)
    ELSE IF vaccination_id \notin DOMAIN registros THEN "VaccinationLogicException"
    ELSE IF ~(DOMAIN kwargs \subseteq {"lote", "observacoes", "proxima_dose"}) THEN "TypeError"
    ELSE "ok"

\* VaccinationService.delete_vaccination up to the repository call
delete_vaccination(user, vaccination_id) ==
    IF validate_staff(user) # "ok" THEN validate_staff(user)
    ELSE IF vaccination_id \notin DOMAIN registros THEN "VaccinationLogicException"
    ELSE "ok"

\* ------------------------------------------------------ PetVacinaViewSet
\* PetVacinaViewSet.get_queryset
PetVacinaViewSet_get_queryset(user) ==
    IF is_staff(user) THEN DOMAIN registros
    ELSE IF PerfilDono_get(user) = NoId THEN {}
    ELSE {r \in DOMAIN registros : registros[r].pet \in DOMAIN pets
                                   /\ pets[registros[r].pet].dono = PerfilDono_get(user)}

\* PetVacinaSerializer: proxima_dose is read-only; pet, vacina and aplicador
\* are primary keys that must exist; no rule on data_aplicacao.
PetVacinaSerializer_validated_data(data) ==
    [f \in (DOMAIN data) \cap RegistroWritable |-> data[f]]

PetVacinaSerializer_is_valid(data, partial) ==
    /\ partial \/ RegistroRequired \subseteq DOMAIN data
    /\ "pet" \in DOMAIN data => data["pet"] \in DOMAIN pets
    /\ "vacina" \in DOMAIN data => data["vacina"] \in DOMAIN vacinas
    /\ "aplicador" \in DOMAIN data => data["aplicador"] \in DOMAIN perfilFuncionario

\* PetVacinaViewSet.create: validation, then perform_create
PetVacinaViewSet_create(user, data) ==
    IF ~PetVacinaSerializer_is_valid(data, FALSE) THEN "ValidationError"
    ELSE validar_staff(user)

\* PetVacinaViewSet.update / partial_update: get_object over get_queryset,
\* validation, then perform_update
PetVacinaViewSet_update(user, pk, data, partial) ==
    IF pk \notin PetVacinaViewSet_get_queryset(user) THEN "Http404"
    ELSE IF ~PetVacinaSerializer_is_valid(data, partial) THEN "ValidationError"
    ELSE validar_staff(user)

\* PetVacinaViewSet.destroy: get_object over get_queryset, then perform_destroy
PetVacinaViewSet_destroy(user, pk) ==
    IF pk \notin PetVacinaViewSet_get_queryset(user) THEN "Http404"
    ELSE validar_staff(user)

\* The three record operations, through VaccinationService or PetVacinaViewSet.
CreateVaccination(via, user, campos) ==
    LET e   == IF via = "service" THEN record_vaccination(user, campos)
               ELSE PetVacinaViewSet_create(user, campos)
        new == ultimoId.registro + 1
    IN  /\ resp.op = "idle"
        /\ e = "ok" => ultimoId.registro < MaxRegistros
        /\ via = "service" => campos \in RegistroInputs
        /\ IF e = "ok"
           THEN /\ registros' = (new :> PetVaccineRepository_create(campos)) @@ registros
                /\ ultimoId' = [ultimoId EXCEPT !.registro = new]
                /\ resp' = Resposta("create_vaccination", via, user, NoId, campos, "ok", {new})
           ELSE /\ UNCHANGED <<registros, ultimoId>>
                /\ resp' = Resposta("create_vaccination", via, user, NoId, campos, e, {})
        /\ UNCHANGED <<usuarios, perfilDono, perfilFuncionario, pets, vacinas, hoje>>

UpdateVaccination(via, user, vaccination_id, kwargs, partial) ==
    LET e == IF via = "service" THEN update_vaccination(user, vaccination_id, kwargs)
             ELSE PetVacinaViewSet_update(user, vaccination_id, kwargs, partial)
        k == IF via = "service" THEN kwargs ELSE PetVacinaSerializer_validated_data(kwargs)
    IN  /\ resp.op = "idle"
        /\ registros' = IF e = "ok"
                        THEN [registros EXCEPT ![vaccination_id] =
                                 PetVaccineRepository_update(registros[vaccination_id], k)]
                        ELSE registros
        /\ resp' = Resposta("update_vaccination", via, user, vaccination_id, kwargs, e,
                            IF e = "ok" THEN {vaccination_id} ELSE {})
        /\ UNCHANGED <<usuarios, perfilDono, perfilFuncionario, pets, vacinas,
                       ultimoId, hoje>>

DeleteVaccination(via, user, vaccination_id) ==
    LET e == IF via = "service" THEN delete_vaccination(user, vaccination_id)
             ELSE PetVacinaViewSet_destroy(user, vaccination_id)
    IN  /\ resp.op = "idle"
        /\ registros' = IF e = "ok"
                        THEN [r \in DOMAIN registros \ {vaccination_id} |-> registros[r]]
                        ELSE registros
        /\ resp' = Resposta("delete_vaccination", via, user, vaccination_id, <<>>, e, {})
        /\ UNCHANGED <<usuarios, perfilDono, perfilFuncionario, pets, vacinas,
                       ultimoId, hoje>>

\* VaccinationService.list_all_vaccinations / PetVacinaViewSet.list
ListVaccinations(via, user) ==
    /\ resp.op = "idle"
    /\ resp' = IF via = "service"
               THEN Resposta("list_vaccinations", via, user, NoId, <<>>,
                             list_all_vaccinations(user).erro, list_all_vaccinations(user).ids)
               ELSE Resposta("list_vaccinations", via, user, NoId, <<>>, "ok",
                             PetVacinaViewSet_get_queryset(user))
    /\ UNCHANGED <<db, hoje>>

\* ------------------------------------------------ per-pet read-only views
\* PetViewSet.historico_vacinas / proximas_doses / doses_vencidas: get_object
\* over get_queryset, then _validar_acesso_pet, then the pet's entries
PetViewSet_sub_view(user, pk) ==
    IF pk \notin PetViewSet_get_queryset(user, NoId) THEN "Http404"
    ELSE PetViewSet_check_dono(user, pets[pk].dono)

historico_vacinas(p) == {r \in DOMAIN registros : registros[r].pet = p}

ViewPetSubView(op, user, pk) ==
    LET e == PetViewSet_sub_view(user, pk)
    IN  /\ resp.op = "idle"
        /\ resp' = Resposta(op, "view", user, pk, <<>>, e,
                     IF e # "ok" THEN {}
                     ELSE IF op = "historico_vacinas" THEN historico_vacinas(pk)
                     ELSE IF op = "proximas_doses" THEN obter_proximas_doses(pk)
                     ELSE obter_doses_vencidas(pk))
        /\ UNCHANGED <<db, hoje>>

\* PetService.get_pet_vaccination_history(pet_id): it takes no caller; `user`
\* is whoever invokes it
get_pet_vaccination_history(pet_id) ==
    IF pet_id \notin DOMAIN pets THEN [erro |-> "PetNotFoundException", ids |-> {}]
    ELSE [erro |-> "ok",
          ids |-> obter_proximas_doses(pet_id) \cup obter_doses_vencidas(pet_id)]

SvcPetVaccinationHistory(user, pet_id) ==
    /\ resp.op = "idle"
    /\ resp' = Resposta("historico_vacinas", "service", user, pet_id, <<>>,
                        get_pet_vaccination_history(pet_id).erro,
                        get_pet_vaccination_history(pet_id).ids)
    /\ UNCHANGED <<db, hoje>>

\* ---------------------------------------------------- system-wide reports
\* PetVacinaViewSet.proximas_doses_sistema / doses_vencidas_sistema
proximas_doses_sistema(user) ==
    IF validar_staff(user) # "ok" THEN [erro |-> validar_staff(user), ids |-> {}]
    ELSE [erro |-> "ok",
          ids |-> {r \in DOMAIN registros :
                      registros[r].proxima_dose # NoDate /\ ~esta_vencida(r)}]

doses_vencidas_sistema(user) ==
    IF validar_staff(user) # "ok" THEN [erro |-> validar_staff(user), ids |-> {}]
    ELSE [erro |-> "ok",
          ids |-> {r \in DOMAIN registros :
                      registros[r].proxima_dose # NoDate /\ esta_vencida(r)}]

\* VaccinationService.get_upcoming_vaccinations / get_overdue_vaccinations:
\* they take no caller; `user` is whoever invokes them
get_upcoming_vaccinations(days_threshold) ==
    [erro |-> "ok", ids |-> PetVaccineRepository_get_upcoming_vaccinations(days_threshold)]

get_overdue_vaccinations ==
    [erro |-> "ok", ids |-> PetVaccineRepository_get_overdue_vaccinations]

SystemReport(op, via, user) ==
    LET r == IF via = "view"
             THEN IF op = "system_upcoming" THEN proximas_doses_sistema(user)
                  ELSE doses_vencidas_sistema(user)
             ELSE IF op = "system_upcoming" THEN get_upcoming_vaccinations(DAYS_THRESHOLD)
                  ELSE get_overdue_vaccinations
    IN  /\ resp.op = "idle"
        /\ resp' = Resposta(op, via, user, NoId, <<>>, r.erro, r.ids)
        /\ UNCHANGED <<db, hoje>>

\* ------------------------------------------------------------ status reads
\* a PetVacina instance for pet p with next dose d
StatusRow(p, d) ==
    [pet |-> p, vacina |-> 1, aplicador |-> 1, data_aplicacao |-> Day0 - 3,
     proxima_dose |-> d, lote |-> "L1", observacoes |-> ""]

\* next-dose dates from two days before the clock starts to MaxAhead days after
StatusDates == (Day0 - 2) .. (Day0 + MaxAhead)

\* the instances handed to get_vaccination_status: saved ones, and one that
\* was never saved and has no next dose
StatusRows == {StatusRow(1, d) : d \in StatusDates \cup {NoDate}}

\* VaccinationService.get_vaccination_status(vaccination): it takes no
\* caller; `user` is whoever invokes it
GetVaccinationStatus(user, row) ==
    /\ resp.op = "idle"
    /\ resp' = Resposta("get_status", "service", user, NoId,
                        [proxima_dose |-> row.proxima_dose, status |-> get_status(row)],
                        "ok", {})
    /\ UNCHANGED <<db, hoje>>

\* PetVacinaViewSet.retrieve: get_object over get_queryset, then the
\* serializer's representation with its two method fields
RetrieveVaccination(user, pk) ==
    /\ resp.op = "idle"
    /\ resp' = IF pk \notin PetVacinaViewSet_get_queryset(user)
               THEN Resposta("retrieve_vaccination", "view", user, pk, <<>>, "Http404", {})
               ELSE Resposta("retrieve_vaccination", "view", user, pk,
                             [proxima_dose |-> registros[pk].proxima_dose,
                              status |-> get_status(registros[pk]),
                              esta_vencida |-> esta_vencida(pk)],
                             "ok", {pk})
    /\ UNCHANGED <<db, hoje>>

\* ------------------------------------------------------ profile viewsets
\* on_delete=PROTECT on Pet.dono: an owner profile with pets cannot be deleted
PerfilDonoProtected(d) == \E p \in DOMAIN pets : pets[p].dono = d

\* on_delete=PROTECT on PetVacina.aplicador
PerfilFuncionarioProtected(f) == \E r \in DOMAIN registros : registros[r].aplicador = f

\* PerfilDonoViewSet.destroy: queryset is every profile and the only
\* permission is IsAuthenticated; get_object, then instance.delete()
PerfilDonoViewSet_destroy(pk) ==
    IF pk \notin DOMAIN perfilDono THEN "Http404"
    ELSE IF PerfilDonoProtected(pk) THEN "ProtectedError"
    ELSE "ok"

\* PerfilFuncionarioViewSet.destroy
PerfilFuncionarioViewSet_destroy(pk) ==
    IF pk \notin DOMAIN perfilFuncionario THEN "Http404"
    ELSE IF PerfilFuncionarioProtected(pk) THEN "ProtectedError"
    ELSE "ok"

DeletePerfilDono(user, pk) ==
    LET e == PerfilDonoViewSet_destroy(pk)
    IN  /\ resp.op = "idle"
        /\ perfilDono' = IF e = "ok"
                         THEN [d \in DOMAIN perfilDono \ {pk} |-> perfilDono[d]]
                         ELSE perfilDono
        /\ resp' = Resposta("delete_perfil_dono", "view", user, pk, <<>>, e, {})
        /\ UNCHANGED <<usuarios, perfilFuncionario, pets, vacinas, registros,
                       ultimoId, hoje>>

DeletePerfilFuncionario(user, pk) ==
    LET e == PerfilFuncionarioViewSet_destroy(pk)
    IN  /\ resp.op = "idle"
        /\ perfilFuncionario' =
               IF e = "ok"
               THEN [f \in DOMAIN perfilFuncionario \ {pk} |-> perfilFuncionario[f]]
               ELSE perfilFuncionario
        /\ resp' = Resposta("delete_perfil_funcionario", "view", user, pk, <<>>, e, {})
        /\ UNCHANGED <<usuarios, perfilDono, pets, vacinas, registros, ultimoId, hoje>>

\* ---------------------------------------------------------- UsuarioViewSet
\* usernames a registration may ask for: one that is free, one that is taken
NovosUsuarios == {"dan", "ana"}

\* bodies of POST / PUT / PATCH users/: the is_staff key, present or not
UsuarioData == {<<>>, ("is_staff" :> TRUE), ("is_staff" :> FALSE)}

\* UsuarioSerializer.create: Usuario.objects.create_user(**validated_data);
\* is_staff is a writable field and defaults to False
UsuarioSerializer_create(data) ==
    [is_staff |-> IF "is_staff" \in DOMAIN data THEN data["is_staff"] ELSE FALSE]

\* ModelSerializer.update: the submitted attributes are set, then save()
UsuarioSerializer_update(row, data) ==
    [f \in DOMAIN row |-> IF f \in DOMAIN data THEN data[f] ELSE row[f]]

\* UsuarioViewSet.create: get_permissions gives AllowAny, so the caller may
\* be anonymous (""); the username must be unique
RegisterUsuario(user, username, data) ==
    /\ resp.op = "idle"
    /\ IF username \in DOMAIN usuarios
       THEN /\ resp' = Resposta("create_usuario", "view", user, NoId, data,
                                "ValidationError", {})
            /\ UNCHANGED usuarios
       ELSE /\ usuarios' = (username :> UsuarioSerializer_create(data)) @@ usuarios
            /\ resp' = Resposta("create_usuario", "view", user, NoId, data, "ok", {})
    /\ UNCHANGED <<perfilDono, perfilFuncionario, pets, vacinas, registros,
                   ultimoId, hoje>>

\* UsuarioViewSet.update / partial_update: IsAuthenticated, get_object over
\* Usuario.objects.all(), then the serializer's update. resp.alvo cannot hold
\* a username, so the account named is put in resp.ids.
UpdateUsuario(user, alvo, data) ==
    /\ resp.op = "idle"
    /\ user \in DOMAIN usuarios
    /\ IF alvo \notin DOMAIN usuarios
       THEN /\ resp' = Resposta("update_usuario", "view", user, NoId, data, "Http404", {alvo})
            /\ UNCHANGED usuarios
       ELSE /\ usuarios' = [usuarios EXCEPT ![alvo] = UsuarioSerializer_update(@, data)]
            /\ resp' = Resposta("update_usuario", "view", user, NoId, data, "ok", {alvo})
    /\ UNCHANGED <<perfilDono, perfilFuncionario, pets, vacinas, registros,
                   ultimoId, hoje>>

\* ----------------------------------------------------- PetViewSet.retrieve
\* None for an age
NoAge == 0 - 100000

\* birth dates of the pets read: none, two years, a year and a day, a year,
\* a day less than a year and a hundred days before the clock starts, and
\* the day it starts
Nascimentos ==
    {NoDate, Day0 - 730, Day0 - 366, Day0 - 365, Day0 - 364, Day0 - 100, Day0}

\* Pet.calcular_idade_dias
calcular_idade_dias(p) ==
    IF pets[p].data_nascimento = NoDate THEN NoAge
    ELSE hoje - pets[p].data_nascimento

\* an age in years rounded to the nearest year
calcular_idade_anos_arredondado(p) ==
    LET dias == calcular_idade_dias(p)
    IN  IF dias = NoAge THEN NoAge ELSE (dias + 182) \div 365

\* Pet.calcular_idade_anos
calcular_idade_anos(p) ==
    LET dias == calcular_idade_dias(p)
    IN  IF dias = NoAge THEN NoAge ELSE dias \div 365

\* PetSerializer: the SerializerMethodFields, in the order of Meta.fields;
\* each one calls its method on the pet and reads the date on its own
PetSerializerMethodFields ==
    <<"idade_anos", "idade_dias", "proximas_doses", "doses_vencidas">>

PetSerializer_method_field(f, p) ==
    CASE f = "idade_anos" -> calcular_idade_anos(p)
      [] f = "idade_dias" -> calcular_idade_dias(p)
      [] f = "proximas_doses" -> obter_proximas_doses(p)
      [] f = "doses_vencidas" -> obter_doses_vencidas(p)

\* PetViewSet.retrieve: get_object over get_queryset; the pet found is then
\* serialized field by field
RetrievePet(user, pk) ==
    /\ resp.op = "idle"
    /\ resp' = IF pk \notin PetViewSet_get_queryset(user, NoId)
               THEN Resposta("retrieve_pet", "view", user, pk, <<>>, "Http404", {})
               ELSE Resposta("serializing_pet", "view", user, pk, <<>>, "ok", {pk})
    /\ UNCHANGED <<db, hoje>>

\* PetSerializer.to_representation: the next method field is computed; after
\* the last one the response is complete
SerializePetField ==
    /\ resp.op = "serializing_pet"
    /\ LET n == Cardinality(DOMAIN resp.dados) + 1
           f == PetSerializerMethodFields[n]
       IN  resp' = [resp EXCEPT
                      !.dados = (f :> PetSerializer_method_field(f, resp.alvo)) @@ @,
                      !.op = IF n = Len(PetSerializerMethodFields)
                             THEN "retrieve_pet" ELSE @]
    /\ UNCHANGED <<db, hoje>>

\* midnight falls while a pet is being serialized
TickSerializing ==
    /\ resp.op = "serializing_pet"
    /\ hoje < Day0 + MaxDay
    /\ hoje' = hoje + 1
    /\ UNCHANGED <<db, resp>>

\* ------------------------------------------- two requests at the same time
\* VaccinationService.record_vaccination (rv) and PetService.delete_pet (dp)
\* run at once, each statement of theirs a step. While they run, resp holds
\* the position and the outcome of each.
EmParalelo(rv, dp) == [op |-> "em_paralelo", rv |-> rv, dp |-> dp]

\* a database that does not enforce the foreign key pet_vacina.pet_id
pet_fk_sem_restricao(p) == FALSE

\* the foreign key pet_vacina.pet_id -> pet.id of PetVacina.pet, as the
\* database enforces it when a pet row is deleted
pet_fk_referenced(p) == \E r \in DOMAIN registros : registros[r].pet = p

\* both requests arrive
IniciarParalelo(campos, user, pet_id) ==
    /\ resp.op = "idle"
    /\ resp' = EmParalelo([pc |-> "validar", user |-> "vet", campos |-> campos,
                           erro |-> "ok"],
                          [pc |-> "buscar", user |-> user, pet_id |-> pet_id,
                           erro |-> "ok"])
    /\ UNCHANGED <<db, hoje>>

\* record_vaccination: _validate_staff, the three lookups and the date check
RV_validar ==
    /\ resp.op = "em_paralelo"
    /\ resp.rv.pc = "validar"
    /\ LET e == record_vaccination(resp.rv.user, resp.rv.campos)
       IN  resp' = [resp EXCEPT !.rv.pc = IF e = "ok" THEN "criar" ELSE "fim",
                                !.rv.erro = e]
    /\ UNCHANGED <<db, hoje>>

\* record_vaccination: vaccination_repo.create, the INSERT; the database
\* refuses a row whose foreign keys point at no row
RV_criar ==
    /\ resp.op = "em_paralelo"
    /\ resp.rv.pc = "criar"
    /\ LET c   == resp.rv.campos
           e   == IF /\ c.pet \in DOMAIN pets
                     /\ c.vacina \in DOMAIN vacinas
                     /\ c.aplicador \in DOMAIN perfilFuncionario
                  THEN "ok" ELSE "IntegrityError"
           new == ultimoId.registro + 1
       IN  /\ e = "ok" => ultimoId.registro < MaxRegistros
           /\ IF e = "ok"
              THEN /\ registros' = (new :> PetVaccineRepository_create(c)) @@ registros
                   /\ ultimoId' = [ultimoId EXCEPT !.registro = new]
              ELSE UNCHANGED <<registros, ultimoId>>
           /\ resp' = [resp EXCEPT !.rv.pc = "fim", !.rv.erro = e]
    /\ UNCHANGED <<usuarios, perfilDono, perfilFuncionario, pets, vacinas, hoje>>

\* delete_pet: get_pet_by_id and the owner check
DP_buscar ==
    /\ resp.op = "em_paralelo"
    /\ resp.dp.pc = "buscar"
    /\ LET p == resp.dp.pet_id
           e == IF p \notin DOMAIN pets THEN "PetNotFoundException"
                ELSE owner_check(resp.dp.user, pets[p].dono)
       IN  resp' = [resp EXCEPT !.dp.pc = IF e = "ok" THEN "coletar" ELSE "fim",
                                !.dp.erro = e]
    /\ UNCHANGED <<db, hoje>>

\* delete_pet: repository.delete -> pet.delete(): the collector reads the
\* rows that reference the pet and raises ProtectedError if there is one
DP_coletar ==
    /\ resp.op = "em_paralelo"
    /\ resp.dp.pc = "coletar"
    /\ resp' = IF PetProtected(resp.dp.pet_id)
               THEN [resp EXCEPT !.dp.pc = "fim", !.dp.erro = "ProtectedError"]
               ELSE [resp EXCEPT !.dp.pc = "apagar"]
    /\ UNCHANGED <<db, hoje>>

\* delete_pet: the DELETE statement; the database refuses it while a
\* pet_vacina row references the pet
DP_apagar ==
    /\ resp.op = "em_paralelo"
    /\ resp.dp.pc = "apagar"
    /\ LET p == resp.dp.pet_id
       IN  IF pet_fk_referenced(p)
           THEN /\ resp' = [resp EXCEPT !.dp.pc = "fim", !.dp.erro = "IntegrityError"]
                /\ UNCHANGED pets
           ELSE /\ resp' = [resp EXCEPT !.dp.pc = "fim"]
                /\ pets' = [q \in DOMAIN pets \ {p} |-> pets[q]]
    /\ UNCHANGED <<usuarios, perfilDono, perfilFuncionario, vacinas, registros,
                   ultimoId, hoje>>

\* both callers have their answers
ResponderParalelo ==
    /\ resp.op = "em_paralelo"
    /\ resp.rv.pc = "fim"
    /\ resp.dp.pc = "fim"
    /\ resp' = Idle
    /\ UNCHANGED <<db, hoje>>

\* ---------------------------------------------------------------- the clock
\* midnight: date.today() moves on
Tick ==
    /\ resp.op = "idle"
    /\ hoje < Day0 + MaxDay
    /\ hoje' = hoje + 1
    /\ UNCHANGED <<db, resp>>

\* the day after the latest next dose of a stored record
UltimoDia == Day0 + MaxAhead + 1

\* midnight, whatever the server is doing, up to UltimoDia
TickStatus ==
    /\ hoje < UltimoDia
    /\ hoje' = hoje + 1
    /\ UNCHANGED <<db, resp>>

\* the response is returned to the caller; the next request may be handled
Responder ==
    /\ resp.op \notin {"idle", "serializing_pet", "em_paralelo"}
    /\ resp' = Idle
    /\ UNCHANGED <<db, hoje>>

\* ------------------------------------------------------------- the system
Users == {"ana", "bia", "caio", "vet", "sam"}

\* The accounts and profiles registered before the clinic data is entered:
\* ana and bia are owners, caio has no profile, vet is staff with a staff
\* profile, sam is staff and also holds an owner profile.
InitContas ==
    /\ usuarios = [u \in Users |-> [is_staff |-> u \in {"vet", "sam"}]]
    /\ perfilDono = (1 :> [usuario |-> "ana"]) @@ (2 :> [usuario |-> "bia"])
                    @@ (3 :> [usuario |-> "sam"])
    /\ perfilFuncionario = (1 :> [usuario |-> "vet"])

Init ==
    /\ InitContas
    /\ pets = <<>>
    /\ vacinas = <<>>
    /\ registros = <<>>
    /\ ultimoId = [pet |-> 0, vacina |-> 0, registro |-> 0]
    /\ hoje = Day0
    /\ resp = Idle

NextPet ==
    \/ \E u \in Users : SvcListPets(u)
    \/ \E u \in Users, d \in DonoIdArgs, c \in PetInputs : SvcCreatePet(u, d, c)
    \/ \E u \in Users, p \in PetIdArgs, k \in PetKwargs : SvcUpdatePet(u, p, k)
    \/ \E u \in Users, p \in PetIdArgs : SvcDeletePet(u, p)
    \/ \E u \in Users, d \in DonoIdArgs : ViewListPets(u, d)
    \/ \E u \in Users, b \in PetViewData : ViewCreatePet(u, b)
    \/ \E u \in Users, p \in PetIdArgs, b \in PetKwargs \cup {PetValido}, partial \in BOOLEAN :
          ViewUpdatePet(u, p, b, partial)
    \/ \E u \in Users, p \in PetIdArgs : ViewDeletePet(u, p)
    \/ \E via \in {"service", "view"}, u \in Users : ListVaccinations(via, u)
    \/ Responder

\* The clinic once ana and bia have each registered a pet.
InitVac ==
    /\ InitContas
    /\ pets = (1 :> PetRow(1, PetValido)) @@ (2 :> PetRow(2, PetValido))
    /\ vacinas = <<>>
    /\ registros = <<>>
    /\ ultimoId = [pet |-> 2, vacina |-> 0, registro |-> 0]
    /\ hoje = Day0
    /\ resp = Idle

Vias == {"service", "view"}
SubViews == {"historico_vacinas", "proximas_doses", "doses_vencidas"}
Reports == {"system_upcoming", "system_overdue"}

NextVac ==
    \/ \E via \in Vias, u \in Users, c \in VacinaInputs : CreateVaccine(via, u, c)
    \/ \E via \in Vias, u \in Users, v \in VacinaIdArgs, k \in VacinaKwargs \cup {VacinaValida},
          partial \in BOOLEAN : UpdateVaccine(via, u, v, k, partial)
    \/ \E via \in Vias, u \in Users, v \in VacinaIdArgs : DeleteVaccine(via, u, v)
    \/ \E via \in Vias, u \in Users, c \in RegistroViewData : CreateVaccination(via, u, c)
    \/ \E via \in Vias, u \in Users, r \in RegistroIdArgs, k \in RegistroKwargs,
          partial \in BOOLEAN : UpdateVaccination(via, u, r, k, partial)
    \/ \E via \in Vias, u \in Users, r \in RegistroIdArgs : DeleteVaccination(via, u, r)
    \/ \E via \in Vias, u \in Users : ListVaccinations(via, u)
    \/ \E op \in SubViews, u \in Users, p \in PetIdArgs : ViewPetSubView(op, u, p)
    \/ \E u \in Users, p \in PetIdArgs : SvcPetVaccinationHistory(u, p)
    \/ \E op \in Reports, via \in Vias, u \in Users : SystemReport(op, via, u)
    \/ Tick
    \/ Responder

\* The staff account that holds a staff profile.
Veterinarios == {"vet"}

\* Record keeping by staff: the requests that decide what a new vaccination
\* record is stored with (the vaccine catalogue, the clock, the creation).
NextDose ==
    \/ \E via \in Vias, u \in Veterinarios, c \in VacinaInputs : CreateVaccine(via, u, c)
    \/ \E via \in Vias, u \in Veterinarios, v \in VacinaIdArgs,
          k \in VacinaKwargs \cup {VacinaValida}, partial \in BOOLEAN :
          UpdateVaccine(via, u, v, k, partial)
    \/ \E via \in Vias, u \in Veterinarios, v \in VacinaIdArgs : DeleteVaccine(via, u, v)
    \/ \E via \in Vias, u \in Veterinarios, c \in RegistroViewData :
          CreateVaccination(via, u, c)
    \/ Tick
    \/ Responder

\* The records staff enter for ana's pet, with any vaccine id.
HistBodies == {b \in RegistroInputs : b.pet = 1 /\ b.aplicador = 1}

\* Saves of a record: a new lote, a new proxima_dose, a new data_aplicacao
\* (which only the serializer accepts).
HistKwargs == RegistroKwargs \cup {("data_aplicacao" :> (Day0 - 2))}

\* The life of a vaccination record after its creation: staff change the
\* vaccine's fields, save the record again, list the records, days pass.
NextHist ==
    \/ \E via \in Vias, u \in Veterinarios : CreateVaccine(via, u, VacinaValida)
    \/ \E via \in Vias, u \in Veterinarios, v \in VacinaIdArgs, k \in VacinaKwargs :
          UpdateVaccine(via, u, v, k, TRUE)
    \/ \E via \in Vias, u \in Veterinarios, c \in HistBodies : CreateVaccination(via, u, c)
    \/ \E via \in Vias, u \in Veterinarios, r \in RegistroIdArgs, k \in HistKwargs :
          UpdateVaccination(via, u, r, k, TRUE)
    \/ \E via \in Vias, u \in Veterinarios : ListVaccinations(via, u)
    \/ Tick
    \/ Responder

\* The clinic once staff have recorded two vaccinations, one for ana's pet
\* and one for either pet, and have set their next-dose dates.
InitStatus ==
    /\ InitContas
    /\ pets = (1 :> PetRow(1, PetValido)) @@ (2 :> PetRow(2, PetValido))
    /\ vacinas = (1 :> VacinaValida)
    /\ \E d1 \in StatusDates, d2 \in StatusDates, p2 \in {1, 2} :
          registros = (1 :> StatusRow(1, d1)) @@ (2 :> StatusRow(p2, d2))
    /\ ultimoId = [pet |-> 2, vacina |-> 1, registro |-> 2]
    /\ hoje = Day0
    /\ resp = Idle

\* who reads: an owner and a staff member
Leitores == {"ana", "vet"}

\* Reading the status of vaccinations as days pass.
NextStatus ==
    \/ \E u \in Veterinarios, row \in StatusRows : GetVaccinationStatus(u, row)
    \/ \E u \in Leitores, pk \in 0 .. 2 : RetrieveVaccination(u, pk)
    \/ \E op \in {"proximas_doses", "doses_vencidas"}, u \in Leitores, p \in PetIdArgs :
          ViewPetSubView(op, u, p)
    \/ Tick
    \/ Responder

\* Reading pets with their ages and dose lists: pet 1 was born on one of
\* the Nascimentos and has a record whose next dose falls around the start.
InitRetrato ==
    /\ InitContas
    /\ \E n \in Nascimentos :
          pets = (1 :> [PetRow(1, PetValido) EXCEPT !.data_nascimento = n])
                 @@ (2 :> PetRow(2, PetValido))
    /\ vacinas = (1 :> VacinaValida)
    /\ \E d1, d2 \in (Day0 - 1) .. (Day0 + 1), p2 \in {1, 2} :
          registros = (1 :> StatusRow(1, d1)) @@ (2 :> StatusRow(p2, d2))
    /\ ultimoId = [pet |-> 2, vacina |-> 1, registro |-> 2]
    /\ hoje = Day0
    /\ resp = Idle

NextRetrato ==
    \/ \E u \in Leitores, pk \in PetIdArgs : RetrievePet(u, pk)
    \/ SerializePetField
    \/ TickSerializing
    \/ Tick
    \/ Responder

\* Registering and updating accounts.
NextConta ==
    \/ \E u \in Users \cup {""}, n \in NovosUsuarios, d \in UsuarioData :
          RegisterUsuario(u, n, d)
    \/ \E u \in Users \cup NovosUsuarios, a \in Users \cup NovosUsuarios, d \in UsuarioData :
          UpdateUsuario(u, a, d)
    \/ Responder

\* Updating stored pets, with and without an owner in the request.
NextDono ==
    \/ \E u \in Leitores, p \in PetIdArgs, k \in PetDonoKwargs : SvcUpdatePet(u, p, k)
    \/ \E u \in Leitores, p \in PetIdArgs, b \in PetDonoKwargs, partial \in BOOLEAN :
          ViewUpdatePet(u, p, b, partial)
    \/ Responder

\* What owners reach through PetViewSet: two owners and a user without a
\* profile list, read, update and delete pets and read the per-pet views.
Donos == {"ana", "bia", "caio"}
NextEscopo ==
    \/ \E u \in Donos, d \in {NoId, 2} : ViewListPets(u, d)
    \/ \E u \in Donos, pk \in PetIdArgs : RetrievePet(u, pk)
    \/ SerializePetField
    \/ \E u \in Donos, p \in PetIdArgs, b \in {("nome" :> "Miau"), ("peso" :> 0)},
          partial \in BOOLEAN : ViewUpdatePet(u, p, b, partial)
    \/ \E u \in Donos, p \in PetIdArgs : ViewDeletePet(u, p)
    \/ \E op \in SubViews, u \in Donos, p \in PetIdArgs : ViewPetSubView(op, u, p)
    \/ Responder

\* Days pass over stored records while their status is read.
NextRelogio ==
    \/ \E u \in Leitores, pk \in 1 .. 2 : RetrieveVaccination(u, pk)
    \/ TickStatus
    \/ Responder

\* Creating and deleting rows of every table: pets, vaccines, records and
\* the two kinds of profile, by an owner and by a veterinarian.
IntegBodies == {b \in RegistroInputs : b.data_aplicacao = Day0 - 1}
NextInteg ==
    \/ \E u \in Leitores, d \in DonoIdArgs : SvcCreatePet(u, d, PetValido)
    \/ \E u \in Leitores, p \in PetIdArgs : SvcDeletePet(u, p)
    \/ \E u \in Leitores, p \in PetIdArgs : ViewDeletePet(u, p)
    \/ \E via \in Vias, u \in Veterinarios : CreateVaccine(via, u, VacinaValida)
    \/ \E via \in Vias, u \in Veterinarios, v \in VacinaIdArgs : DeleteVaccine(via, u, v)
    \/ \E via \in Vias, u \in Veterinarios, c \in IntegBodies : CreateVaccination(via, u, c)
    \/ \E via \in Vias, u \in Veterinarios, r \in RegistroIdArgs :
          DeleteVaccination(via, u, r)
    \/ \E u \in Leitores, d \in DonoIdArgs : DeletePerfilDono(u, d)
    \/ \E u \in Leitores, f \in FuncionarioIdArgs : DeletePerfilFuncionario(u, f)
    \/ Responder

\* A veterinarian records vaccinations while pets are being deleted; the
\* catalogue gets its vaccine first.
NextParalelo ==
    \/ \E c \in IntegBodies, u \in Leitores, p \in PetIdArgs : IniciarParalelo(c, u, p)
    \/ RV_validar
    \/ RV_criar
    \/ DP_buscar
    \/ DP_coletar
    \/ DP_apagar
    \/ ResponderParalelo
    \/ \E u \in Veterinarios : CreateVaccine("service", u, VacinaValida)
    \/ \E u \in Veterinarios, r \in RegistroIdArgs : DeleteVaccination("service", u, r)
    \/ Responder

NextPerfil ==
    \/ \E u \in Users, d \in DonoIdArgs : DeletePerfilDono(u, d)
    \/ \E u \in Users, f \in FuncionarioIdArgs : DeletePerfilFuncionario(u, f)

Next == NextPet \/ NextVac \/ NextPerfil \/ NextRetrato \/ NextConta \/ TickStatus \/ NextParalelo

SpecVac == InitVac /\ [][NextVac]_vars
SpecPet == Init /\ [][NextPet]_vars
SpecHist == InitVac /\ [][NextHist]_vars
SpecStatus == InitStatus /\ [][NextStatus]_vars
SpecDose == InitVac /\ [][NextDose]_vars
SpecInteg == Init /\ [][NextInteg]_vars
SpecRetrato == InitRetrato /\ [][NextRetrato]_vars
SpecConta == Init /\ [][NextConta]_vars
SpecDono == InitRetrato /\ [][NextDono]_vars
SpecEscopo == InitRetrato /\ [][NextEscopo]_vars
SpecParalelo == InitVac /\ [][NextParalelo]_vars
SpecRelogio == InitStatus /\ [][NextRelogio]_vars /\ WF_vars(TickStatus)
Spec == Init /\ [][Next]_vars
\* ======================================================================
\* Claims
\* ======================================================================
PetMutations == {"update_pet", "delete_pet"}
CatalogMutations ==
    {"create_vaccine", "update_vaccine", "delete_vaccine",
     "create_vaccination", "update_vaccination", "delete_vaccination"}

\* the step in which a request is handled
Handled == resp.op = "idle" /\ resp'.op # "idle"

\* C1 (as claimed): a non-staff caller's update_pet / delete_pet of an
\* existing pet owned by someone else fails with PermissionDenied, through
\* the service and through PetViewSet, and leaves the pet table unchanged.
C1_NonOwnerUpdateDeleteDenied ==
    [][ ( /\ Handled
          /\ resp'.op \in PetMutations
          /\ ~is_staff(resp'.user)
          /\ resp'.alvo \in DOMAIN pets
          /\ pets[resp'.alvo].dono # PerfilDono_get(resp'.user) )
        => (IsPermissionDenied(resp'.erro) /\ pets' = pets) ]_vars

\* C2 (as claimed): every create / update / delete of a Vaccine or of a
\* VaccinationRecord by a non-staff caller fails with PermissionDenied,
\* whatever the arguments and the stored rows, and changes neither table.
C2_NonStaffMutationDenied ==
    [][ ( /\ Handled
          /\ resp'.op \in CatalogMutations
          /\ ~is_staff(resp'.user) )
        => ( /\ IsPermissionDenied(resp'.erro)
             /\ vacinas' = vacinas
             /\ registros' = registros ) ]_vars

\* C3 (as claimed): a pet listing returns every stored pet to a staff caller
\* and exactly the caller's own pets to a non-staff caller with an
\* OwnerProfile.
C3_ListPetsAsClaimed ==
    resp.op = "list_pets" =>
        /\ is_staff(resp.user) => (resp.erro = "ok" /\ resp.ids = DOMAIN pets)
        /\ (~is_staff(resp.user) /\ PerfilDono_get(resp.user) # NoId) =>
              ( /\ resp.erro = "ok"
                /\ resp.ids = {p \in DOMAIN pets : pets[p].dono = PerfilDono_get(resp.user)} )

\* C3 (amended): a pet listing returns to a staff caller every stored pet,
\* or, when the staff caller passes the dono_id filter, exactly the pets of
\* that owner; to a non-staff caller with an OwnerProfile it returns exactly
\* the pets owned by that profile, whatever filter is passed.
C3_ListPets ==
    resp.op = "list_pets" =>
        /\ (is_staff(resp.user) /\ resp.alvo = NoId) =>
              (resp.erro = "ok" /\ resp.ids = DOMAIN pets)
        /\ (is_staff(resp.user) /\ resp.alvo # NoId) =>
              ( /\ resp.erro = "ok"
                /\ resp.ids = {p \in DOMAIN pets : pets[p].dono = resp.alvo} )
        /\ (~is_staff(resp.user) /\ PerfilDono_get(resp.user) # NoId) =>
              ( /\ resp.erro = "ok"
                /\ resp.ids = {p \in DOMAIN pets : pets[p].dono = PerfilDono_get(resp.user)} )

\* C3 witness: an owner lists through the viewset while another owner also
\* has a pet, and gets a non-empty list.
C3_Witness ==
    /\ resp.op = "list_pets"
    /\ resp.via = "view"
    /\ ~is_staff(resp.user)
    /\ resp.ids # {}
    /\ \E p \in DOMAIN pets : pets[p].dono # PerfilDono_get(resp.user)

\* C4 (as claimed): a non-staff caller with an OwnerProfile and no
\* StaffProfile who lists vaccination records gets exactly the records of
\* the pets that profile owns.
C4_OwnerListsOwnRecords ==
    ( /\ resp.op = "list_vaccinations"
      /\ ~is_staff(resp.user)
      /\ PerfilDono_get(resp.user) # NoId
      /\ PerfilFuncionario_get(resp.user) = NoId )
    => ( /\ resp.erro = "ok"
         /\ resp.ids = {r \in DOMAIN registros :
                           pets[registros[r].pet].dono = PerfilDono_get(resp.user)} )

\* C5 (as claimed): vaccination history, upcoming doses and overdue doses of
\* a pet reach a non-staff caller only when the pet belongs to the caller's
\* own OwnerProfile, whichever entry point serves them.
C5_SubViewsOwnerOnly ==
    ( /\ resp.op \in {"historico_vacinas", "proximas_doses", "doses_vencidas"}
      /\ ~is_staff(resp.user)
      /\ resp.erro = "ok"
      /\ resp.ids # {} )
    => ( /\ resp.alvo \in DOMAIN pets
         /\ pets[resp.alvo].dono = PerfilDono_get(resp.user) )

\* a create_pet request whose fields pass validation
PetDadosValidos(dados) ==
    /\ {"nome", "especie", "raca", "peso"} \subseteq DOMAIN dados
    /\ dados["peso"] >= MIN_PET_WEIGHT

\* the pets a step has inserted
NovosPets == {p \in DOMAIN pets' : p \notin DOMAIN pets}

\* C6 (as claimed): every pet a non-staff caller creates belongs to the
\* caller's OwnerProfile; a create_pet naming another owner id is rejected
\* with PermissionDenied and creates nothing; one that omits the owner id
\* creates the pet under the caller's OwnerProfile.
C6_OwnerCreateAsClaimed ==
    [][ (Handled /\ resp'.op = "create_pet" /\ ~is_staff(resp'.user)) =>
          /\ \A p \in NovosPets : pets'[p].dono = PerfilDono_get(resp'.user)
          /\ (resp'.alvo # NoId /\ resp'.alvo # PerfilDono_get(resp'.user)) =>
                (IsPermissionDenied(resp'.erro) /\ pets' = pets)
          /\ (resp'.alvo = NoId /\ PerfilDono_get(resp'.user) # NoId) =>
                ( /\ resp'.erro = "ok"
                  /\ \E p \in NovosPets : pets'[p].dono = PerfilDono_get(resp'.user) )
      ]_vars

\* C6 (amended): every pet a non-staff caller creates belongs to the caller's
\* OwnerProfile; a create_pet naming another owner id creates nothing, and
\* when its fields are otherwise valid it is rejected with PermissionDenied;
\* a create_pet with valid fields that omits the owner id, by a caller who
\* holds an OwnerProfile, creates the pet under that profile.
C6_OwnerCreate ==
    [][ (Handled /\ resp'.op = "create_pet" /\ ~is_staff(resp'.user)) =>
          /\ \A p \in NovosPets : pets'[p].dono = PerfilDono_get(resp'.user)
          /\ (resp'.alvo # NoId /\ resp'.alvo # PerfilDono_get(resp'.user)) =>
                /\ resp'.erro # "ok"
                /\ pets' = pets
                /\ PetDadosValidos(resp'.dados) => IsPermissionDenied(resp'.erro)
          /\ ( /\ resp'.alvo = NoId
               /\ PerfilDono_get(resp'.user) # NoId
               /\ PetDadosValidos(resp'.dados) ) =>
                ( /\ resp'.erro = "ok"
                  /\ \E p \in NovosPets : pets'[p].dono = PerfilDono_get(resp'.user) )
      ]_vars

\* C6 witness: an owner who already has a pet names another owner's id in a
\* valid create_pet and is refused.
C6_Witness ==
    /\ resp.op = "create_pet"
    /\ ~is_staff(resp.user)
    /\ PerfilDono_get(resp.user) # NoId
    /\ resp.alvo \in DOMAIN perfilDono
    /\ resp.alvo # PerfilDono_get(resp.user)
    /\ PetDadosValidos(resp.dados)
    /\ IsPermissionDenied(resp.erro)
    /\ \E p \in DOMAIN pets : pets[p].dono = PerfilDono_get(resp.user)

\* C7 (as claimed): a staff caller's create_pet with valid fields that names
\* an existing OwnerProfile succeeds and stores the pet under that profile.
C7_StaffCreatesForOwner ==
    [][ ( /\ Handled
          /\ resp'.op = "create_pet"
          /\ is_staff(resp'.user)
          /\ resp'.alvo \in DOMAIN perfilDono
          /\ PetDadosValidos(resp'.dados) )
        => ( /\ resp'.erro = "ok"
             /\ \E p \in NovosPets : pets'[p].dono = resp'.alvo ) ]_vars

\* C8 (as claimed): no all-pets upcoming or overdue listing returns data to
\* a caller who is not staff.
C8_ReportsStaffOnly ==
    ( /\ resp.op \in {"system_upcoming", "system_overdue"}
      /\ resp.erro = "ok"
      /\ resp.ids # {} )
    => is_staff(resp.user)

\* C9 (as claimed): for a non-staff caller without an OwnerProfile, listing
\* pets, listing vaccination records and creating, updating or deleting a
\* pet all end in an error, never in a successful (empty) result.
C9_NoProfileIsAnError ==
    ( /\ resp.op \in {"list_pets", "list_vaccinations", "create_pet", "update_pet",
                      "delete_pet"}
      /\ ~is_staff(resp.user)
      /\ PerfilDono_get(resp.user) = NoId )
    => resp.erro # "ok"

\* C10: a record created without an explicit next-dose date is stored with
\* proxima_dose = data_aplicacao + the vaccine's intervalo_doses_dias as it
\* is when the record is created.
C10_NextDoseComputed ==
    [][ ( /\ Handled
          /\ resp'.op = "create_vaccination"
          /\ resp'.erro = "ok"
          /\ "proxima_dose" \notin DOMAIN resp'.dados )
        => \A r \in resp'.ids :
              /\ r \in DOMAIN registros' /\ r \notin DOMAIN registros
              /\ registros'[r].proxima_dose =
                    resp'.dados.data_aplicacao
                    + vacinas[resp'.dados.vacina].intervalo_doses_dias ]_vars

\* C10 witness: a record has just been created for a vaccine whose interval
\* had been changed from 3 to 5 days, and its next dose is 5 days after the
\* application.
C10_Witness ==
    /\ resp.op = "create_vaccination"
    /\ resp.erro = "ok"
    /\ "proxima_dose" \notin DOMAIN resp.dados
    /\ \E r \in resp.ids :
          /\ vacinas[registros[r].vacina].intervalo_doses_dias = 5
          /\ registros[r].proxima_dose = registros[r].data_aplicacao + 5

\* C11: the proxima_dose of a stored record changes in no step (vaccine
\* updates, interval changes, reads, clock advances, saves of the record)
\* other than an update of that record that explicitly supplies a new
\* proxima_dose.
C11_NextDoseStable ==
    [][ \A r \in (DOMAIN registros) \cap (DOMAIN registros') :
          registros'[r].proxima_dose # registros[r].proxima_dose =>
              /\ resp'.op = "update_vaccination"
              /\ resp'.alvo = r
              /\ "proxima_dose" \in DOMAIN resp'.dados ]_vars

\* C11 witness: the vaccine's interval was changed from 3 to 5 days after the
\* record was created, the record has just been saved again with a new lote
\* only, and its next dose is still 3 days after the application.
C11_Witness ==
    /\ resp.op = "update_vaccination"
    /\ resp.erro = "ok"
    /\ "proxima_dose" \notin DOMAIN resp.dados
    /\ resp.alvo \in DOMAIN registros
    /\ registros[resp.alvo].lote = "L2"
    /\ vacinas[registros[resp.alvo].vacina].intervalo_doses_dias = 5
    /\ registros[resp.alvo].proxima_dose = registros[resp.alvo].data_aplicacao + 3

\* C12: get_status answers "indefinido" when there is no next dose, "vencida"
\* when the next dose is before today, "proxima_em_breve" when it is 0 to 7
\* days ahead (the 7th day included) and "em_dia" when it is 8 or more days
\* ahead; it always answers one of these four.
C12_StatusFunction ==
    resp.op = "get_status" =>
        LET p  == resp.dados.proxima_dose
            st == resp.dados.status
        IN  /\ st \in {"indefinido", "vencida", "proxima_em_breve", "em_dia"}
            /\ st = "indefinido" <=> p = NoDate
            /\ st = "vencida" <=> (p # NoDate /\ p < hoje)
            /\ st = "proxima_em_breve" <=> (p # NoDate /\ 0 <= p - hoje /\ p - hoje <= 7)
            /\ st = "em_dia" <=> (p # NoDate /\ p - hoje >= 8)

\* C12 witness: the status of a next dose exactly 7 days ahead was read and
\* is "proxima_em_breve".
C12_Witness ==
    /\ resp.op = "get_status"
    /\ resp.dados.proxima_dose = hoje + 7
    /\ resp.dados.status = "proxima_em_breve"

\* C13 (as claimed): for a record whose next dose is today, esta_vencida and
\* get_status disagree on whether it is overdue.
C13_DisagreeAtToday ==
    ( /\ resp.op = "retrieve_vaccination"
      /\ resp.erro = "ok"
      /\ resp.dados.proxima_dose = hoje )
    => (resp.dados.esta_vencida <=> resp.dados.status # "vencida")

\* C13 (amended): for a record whose next dose is today, esta_vencida and
\* get_status agree: esta_vencida is false and the status is
\* "proxima_em_breve", so neither reports the record as overdue.
C13_AgreeAtToday ==
    ( /\ resp.op = "retrieve_vaccination"
      /\ resp.erro = "ok"
      /\ resp.dados.proxima_dose = hoje )
    => (~resp.dados.esta_vencida /\ resp.dados.status = "proxima_em_breve")

\* C13 witness: a record whose next dose is today has been retrieved.
C13_Witness ==
    /\ resp.op = "retrieve_vaccination"
    /\ resp.erro = "ok"
    /\ resp.dados.proxima_dose = hoje
    /\ registros[resp.alvo].proxima_dose = hoje

\* the records of pet p
RegistrosDoPet(p) == {r \in DOMAIN registros : registros[r].pet = p}

\* C14: for every pet and every today, obter_proximas_doses lists exactly the
\* pet's records with proxima_dose >= today and obter_doses_vencidas exactly
\* those with proxima_dose < today; the lists are disjoint, together they are
\* the pet's records that have a proxima_dose, dias_restantes is
\* proxima_dose - today >= 0 and dias_vencido is today - proxima_dose > 0.
C14_DosesPartition ==
    \A p \in DOMAIN pets :
        LET up == obter_proximas_doses(p)
            od == obter_doses_vencidas(p)
        IN  /\ up = {r \in RegistrosDoPet(p) : registros[r].proxima_dose # NoDate
                                                /\ registros[r].proxima_dose >= hoje}
            /\ od = {r \in RegistrosDoPet(p) : registros[r].proxima_dose # NoDate
                                                /\ registros[r].proxima_dose < hoje}
            /\ up \cap od = {}
            /\ up \cup od = {r \in RegistrosDoPet(p) : registros[r].proxima_dose # NoDate}
            /\ \A r \in up : /\ dias_restantes(r) = registros[r].proxima_dose - hoje
                             /\ dias_restantes(r) >= 0
            /\ \A r \in od : /\ dias_vencido(r) = hoje - registros[r].proxima_dose
                             /\ dias_vencido(r) > 0

\* C14 witness: the upcoming doses of a pet have been listed; one of its
\* records is due today and is in the list, another one is overdue.
C14_Witness ==
    /\ resp.op = "proximas_doses"
    /\ resp.erro = "ok"
    /\ \E r \in resp.ids : registros[r].proxima_dose = hoje
    /\ obter_doses_vencidas(resp.alvo) # {}
    /\ resp.ids \cap obter_doses_vencidas(resp.alvo) = {}

\* the records a step has inserted
NovosRegistros == {r \in DOMAIN registros' : r \notin DOMAIN registros}

\* C15: when a staff caller records a vaccination and the pet id, the vaccine
\* id or the administrator id does not resolve to a stored row, the request is
\* rejected and no record is created; a record is created only when all three
\* resolve, and it references them.
C15_ReferencesResolve ==
    [][ (Handled /\ resp'.op = "create_vaccination" /\ is_staff(resp'.user)) =>
          /\ ( \/ resp'.dados.pet \notin DOMAIN pets
               \/ resp'.dados.vacina \notin DOMAIN vacinas
               \/ resp'.dados.aplicador \notin DOMAIN perfilFuncionario )
             => (resp'.erro # "ok" /\ registros' = registros)
          /\ \A r \in NovosRegistros :
                /\ registros'[r].pet = resp'.dados.pet
                /\ registros'[r].vacina = resp'.dados.vacina
                /\ registros'[r].aplicador = resp'.dados.aplicador
                /\ registros'[r].pet \in DOMAIN pets
                /\ registros'[r].vacina \in DOMAIN vacinas
                /\ registros'[r].aplicador \in DOMAIN perfilFuncionario ]_vars

\* C15 witness: staff called record_vaccination with a stored pet and a stored
\* vaccine but an administrator id that is not stored, and was refused.
C15_Witness ==
    /\ resp.op = "create_vaccination"
    /\ resp.via = "service"
    /\ is_staff(resp.user)
    /\ resp.dados.pet \in DOMAIN pets
    /\ resp.dados.vacina \in DOMAIN vacinas
    /\ resp.dados.aplicador \notin DOMAIN perfilFuncionario
    /\ resp.dados.data_aplicacao <= hoje
    /\ resp.erro # "ok"
    /\ registros = <<>>

\* C16 (as claimed): every creation of a vaccination record whose application
\* date is after today is rejected and creates nothing, through the service
\* and through PetVacinaViewSet.
C16_NoFutureApplication ==
    [][ ( /\ Handled
          /\ resp'.op = "create_vaccination"
          /\ resp'.dados.data_aplicacao > hoje )
        => (resp'.erro # "ok" /\ registros' = registros) ]_vars

\* C17: every stored vaccine has a price strictly above zero and an
\* interval between doses strictly above zero; no request stores a price
\* of 0 or an interval of 0.
C17_VaccinePositive ==
    \A v \in DOMAIN vacinas :
        vacinas[v].valor > 0 /\ vacinas[v].intervalo_doses_dias > 0

\* the row a delete request names is referenced by another row
C18_Referenced(op, alvo) ==
    \/ op = "delete_perfil_dono" /\ \E p \in DOMAIN pets : pets[p].dono = alvo
    \/ op = "delete_pet" /\ \E r \in DOMAIN registros : registros[r].pet = alvo
    \/ op = "delete_vaccine" /\ \E r \in DOMAIN registros : registros[r].vacina = alvo
    \/ op = "delete_perfil_funcionario"
          /\ \E r \in DOMAIN registros : registros[r].aplicador = alvo

\* every foreign key points at a stored row
C18_ReferencesExist ==
    /\ \A p \in DOMAIN pets : pets[p].dono \in DOMAIN perfilDono
    /\ \A r \in DOMAIN registros :
          /\ registros[r].pet \in DOMAIN pets
          /\ registros[r].vacina \in DOMAIN vacinas
          /\ registros[r].aplicador \in DOMAIN perfilFuncionario

\* C18: in every reachable state each pet references a stored owner profile
\* and each vaccination record references a stored pet, vaccine and staff
\* profile; deleting an owner profile that has pets, or a pet, vaccine or
\* staff profile that has records, is refused and deletes nothing.
C18_ReferentialIntegrity ==
    /\ []C18_ReferencesExist
    /\ [][ (Handled /\ C18_Referenced(resp'.op, resp'.alvo))
           => (resp'.erro # "ok" /\ db' = db) ]_vars

C18_Witness ==
    /\ resp.op \in {"delete_perfil_dono", "delete_pet", "delete_vaccine",
                    "delete_perfil_funcionario"}
    /\ resp.erro = "ProtectedError"
    /\ C18_Referenced(resp.op, resp.alvo)

\* the request violates a field constraint of the service it calls
C19_FieldViolation ==
    /\ resp'.via = "service"
    /\ \/ /\ resp'.op \in {"create_pet", "update_pet"}
          /\ "peso" \in DOMAIN resp'.dados
          /\ resp'.dados["peso"] < MIN_PET_WEIGHT
       \/ /\ resp'.op \in {"create_vaccine", "update_vaccine"}
          /\ \/ "valor" \in DOMAIN resp'.dados /\ resp'.dados["valor"] < 0
             \/ /\ "intervalo_doses_dias" \in DOMAIN resp'.dados
                /\ resp'.dados["intervalo_doses_dias"] <= 0
       \/ /\ resp'.op = "create_vaccination"
          /\ resp'.dados.data_aplicacao > hoje

\* C19: a field-constraint violation (pet weight below the minimum in
\* create_pet / update_pet, negative price or non-positive interval in
\* create_vaccine / update_vaccine, future application date in
\* record_vaccination) reaches the caller as a ValidationError with a client
\* error status, never as an internal error, and leaves the data unchanged.
C19_ValidationErrorKind ==
    [][ (Handled /\ C19_FieldViolation
         /\ error_kind(resp'.erro) \notin {"PermissionDenied", "NotFound"})
        => ( /\ resp'.erro # "ok"
             /\ error_kind(resp'.erro) = "ValidationError"
             /\ custom_exception_handler(resp'.erro) = 400
             /\ db' = db ) ]_vars

\* the service request names a row that is not stored
C20_MissingTarget ==
    /\ resp'.via = "service"
    /\ \/ /\ resp'.op \in {"update_pet", "delete_pet"}
          /\ resp'.alvo \notin DOMAIN pets
       \/ /\ resp'.op \in {"update_vaccine", "delete_vaccine"}
          /\ resp'.alvo \notin DOMAIN vacinas
       \/ /\ resp'.op \in {"update_vaccination", "delete_vaccination"}
          /\ resp'.alvo \notin DOMAIN registros
       \/ /\ resp'.op = "create_vaccination"
          /\ \/ resp'.dados.pet \notin DOMAIN pets
             \/ resp'.dados.vacina \notin DOMAIN vacinas
             \/ resp'.dados.aplicador \notin DOMAIN perfilFuncionario
       \/ /\ resp'.op = "create_pet"
          /\ resp'.alvo # NoId
          /\ resp'.alvo \notin DOMAIN perfilDono

\* C20: a service operation by a staff caller that names a Pet, Vaccine,
\* VaccinationRecord, StaffProfile or OwnerProfile id that is not stored
\* fails with an error of the NotFound kind and the not-found status (404).
C20_MissingIsNotFound ==
    [][ (Handled /\ is_staff(resp'.user) /\ C20_MissingTarget)
        => ( /\ error_kind(resp'.erro) = "NotFound"
             /\ custom_exception_handler(resp'.erro) = 404 ) ]_vars

\* the exception classes that are not classified domain errors
Unclassified ==
    {"ValueError", "TypeError", "Http404", "DoesNotExist", "ProtectedError",
     "IntegrityError"}

\* C21: a failure that is not a classified domain error is answered with
\* the same fixed generic body and status 500 whatever the type and the
\* text of the exception, by custom_exception_handler and by
\* ExceptionHandlingMiddleware alike.
C21_GenericResponse ==
    [][ (Handled /\ resp'.erro \in Unclassified)
        => \A e \in Unclassified, m1, m2 \in Mensagens :
              /\ exception_response(resp'.erro, m1) = exception_response(e, m2)
              /\ exception_response(resp'.erro, m1).status = 500
              /\ ExceptionHandlingMiddleware_call(resp'.erro, m1)
                     = ExceptionHandlingMiddleware_call(e, m2)
              /\ ExceptionHandlingMiddleware_call(resp'.erro, m1).status = 500 ]_vars

C21_Witness ==
    /\ resp.erro \in Unclassified
    /\ exception_response(resp.erro, "Peso minimo e 0.01kg") = GENERIC_ERROR

\* C22: a Pet, Vaccine or VaccinationRecord fetched by the generated id
\* right after its creation holds every submitted field with the submitted
\* value, a submitted next-dose date of a VaccinationRecord included.
C22_RoundTrip ==
    [][ (Handled /\ resp'.erro = "ok"
         /\ resp'.op \in {"create_pet", "create_vaccine", "create_vaccination"})
        => \A id \in resp'.ids :
              LET row == CASE resp'.op = "create_pet" -> pets'[id]
                           [] resp'.op = "create_vaccine" -> vacinas'[id]
                           [] resp'.op = "create_vaccination" -> registros'[id]
              IN  \A f \in DOMAIN resp'.dados :
                     f \in DOMAIN row /\ row[f] = resp'.dados[f] ]_vars

\* the step that computes method field f of the pet being serialized
C23_Computes(f) ==
    /\ resp.op = "serializing_pet"
    /\ f \notin DOMAIN resp.dados
    /\ f \in DOMAIN resp'.dados

\* C23: age_in_days is null when the pet has no birth date and is
\* today - birth_date otherwise; age_in_years is null when age_in_days is
\* null and is the floor of age_in_days / 365 otherwise; a pet born 100 days
\* ago is 100 days and 0 years old.
C23_Ages ==
    [][ LET nasc == pets[resp.alvo].data_nascimento
            dias == resp'.dados["idade_dias"]
            anos == resp'.dados["idade_anos"]
        IN  /\ C23_Computes("idade_dias") =>
                  /\ nasc = NoDate => dias = NoAge
                  /\ nasc # NoDate => dias = hoje - nasc
                  /\ nasc = hoje - 100 => dias = 100
            /\ C23_Computes("idade_anos") =>
                  /\ nasc = NoDate => anos = NoAge
                  /\ nasc # NoDate =>
                        /\ anos * 365 <= hoje - nasc
                        /\ hoje - nasc < (anos + 1) * 365
                  /\ nasc = hoje - 100 => anos = 0 ]_vars

C23_Witness ==
    /\ resp.op = "retrieve_pet"
    /\ resp.erro = "ok"
    /\ pets[resp.alvo].data_nascimento = hoje - 100
    /\ resp.dados["idade_dias"] = 100
    /\ resp.dados["idade_anos"] = 0

\* C24: an update or partial update of a Usuario by an authenticated caller
\* who is not that user is rejected and leaves the account unchanged.
C24_UpdateOwnAccountOnly ==
    [][ (Handled /\ resp'.op = "update_usuario"
         /\ \E a \in resp'.ids : a \in DOMAIN usuarios /\ a # resp'.user)
        => (resp'.erro # "ok" /\ usuarios' = usuarios) ]_vars

\* C25: a request by an anonymous or non-staff caller never yields an
\* account with is_staff = true that was not staff before: registration
\* creates non-staff users and a non-staff caller's update cannot set the
\* flag.
C25_NoStaffEscalation ==
    [][ (Handled /\ (resp'.user = "" \/ ~is_staff(resp'.user)))
        => \A u \in DOMAIN usuarios' :
              usuarios'[u].is_staff => (u \in DOMAIN usuarios /\ usuarios[u].is_staff)
      ]_vars

C27_Meus(user) ==
    {p \in DOMAIN pets : PerfilDono_get(user) # NoId /\ pets[p].dono = PerfilDono_get(user)}

\* the operations of PetViewSet that name a pet
C27_PetOps ==
    {"retrieve_pet", "serializing_pet", "update_pet", "delete_pet"} \cup SubViews

\* C27: through PetViewSet the answer a non-staff caller receives is
\* determined by the caller's own pets and their records: a listing holds
\* the caller's pets only; a pet id owned by someone else is answered like
\* one that is not stored (not found, no data, nothing changed); and an
\* operation on an own pet returns and changes nothing of the others.
C27_OwnerView ==
    [][ (Handled /\ resp'.via = "view" /\ ~is_staff(resp'.user))
        => LET meus  == C27_Meus(resp'.user)
               resto == DOMAIN pets \ meus
           IN  /\ resp'.op = "list_pets" => resp'.ids = meus
               /\ (resp'.op \in C27_PetOps /\ resp'.alvo \notin meus) =>
                     /\ resp'.erro = "Http404"
                     /\ resp'.ids = {}
                     /\ db' = db
               /\ (resp'.op \in C27_PetOps /\ resp'.alvo \in meus) =>
                     /\ resp'.ids \subseteq
                           {resp'.alvo} \cup {r \in DOMAIN registros :
                                                 registros[r].pet = resp'.alvo}
                     /\ \A p \in resto : p \in DOMAIN pets' /\ pets'[p] = pets[p]
                     /\ registros' = registros ]_vars

C27_Witness ==
    /\ resp.op \in C27_PetOps
    /\ resp.via = "view"
    /\ ~is_staff(resp.user)
    /\ PerfilDono_get(resp.user) # NoId
    /\ resp.alvo \in DOMAIN pets
    /\ pets[resp.alvo].dono # PerfilDono_get(resp.user)
    /\ resp.erro = "Http404"

\* the order in which a status may follow another
C28_Rank(status) ==
    CASE status = "em_dia" -> 1
      [] status = "proxima_em_breve" -> 2
      [] status = "vencida" -> 3
      [] OTHER -> 0

\* C28: while the next dose of a record stays as stored, the status
\* get_status returns only moves forward through up to date, due soon,
\* overdue as the days pass, never backward; an overdue record stays
\* overdue; and every record is eventually overdue.
C28_StatusMovesForward ==
    /\ [][ \A r \in DOMAIN registros :
              C28_Rank(get_status(registros[r])') >= C28_Rank(get_status(registros[r]))
         ]_vars
    /\ \A r \in 1 .. 2 :
          /\ [](get_status(registros[r]) = "vencida"
                  => [](get_status(registros[r]) = "vencida"))
          /\ <>(get_status(registros[r]) = "vencida")

C28_Witness ==
    /\ registros[1].proxima_dose = Day0 + MaxAhead
    /\ hoje = UltimoDia
    /\ get_status(registros[1]) = "vencida"
    /\ resp.op = "retrieve_vaccination"
    /\ resp.alvo = 1
    /\ resp.dados.status = "vencida"

\* C29: however the steps of a staff record_vaccination for a pet and of a
\* delete_pet of the same pet interleave, no state holds a vaccination
\* record whose pet is no longer stored.
C29_NoOrphanRecord ==
    \A r \in DOMAIN registros : registros[r].pet \in DOMAIN pets

C29_Witness ==
    /\ resp.op = "em_paralelo"
    /\ resp.rv.pc = "fim"
    /\ resp.rv.erro = "ok"
    /\ resp.dp.pc = "fim"
    /\ resp.dp.erro = "IntegrityError"
    /\ resp.dp.pet_id = resp.rv.campos.pet

\* C30: in one serialized Pet response no vaccination record is in both
\* proximas_doses and doses_vencidas, and every record of the pet that has a
\* next dose is in one of them, even when the date changes between the two
\* computations.
C30_ListsPartitionInResponse ==
    (resp.op = "retrieve_pet" /\ resp.erro = "ok")
    => /\ resp.dados["proximas_doses"] \cap resp.dados["doses_vencidas"] = {}
       /\ \A r \in DOMAIN registros :
             (registros[r].pet = resp.alvo /\ registros[r].proxima_dose # NoDate)
             => r \in resp.dados["proximas_doses"] \cup resp.dados["doses_vencidas"]
====
